---- MODULE Spec2Model ----
(***************************************************************************)
(* A model of api-client-tui (nutcas3/api-client-tui): the ConfigManager   *)
(* store of features.go (Config, History, Collections, Environments, the   *)
(* four JSON files and the sync.RWMutex guarding them) and the request     *)
(* pipeline of main.go (Model.sendRequest).                                *)
(*                                                                         *)
(* Goroutines are modelled as threads with a call stack; a store method is *)
(* split at the points where it can block or be observed: acquiring the    *)
(* lock, the in-memory mutation, the file write, the deferred unlock.      *)
(***************************************************************************)
EXTENDS Integers, Sequences, FiniteSets, TLC

VARIABLES
    Config,        \* ConfigManager.Config (the fields the store logic reads)
    History,       \* ConfigManager.History, index 1 is Go's index 0
    Collections,   \* ConfigManager.Collections: name -> Collection
    Environments,  \* ConfigManager.Environments: name -> Environment
    disk,          \* the four JSON files under configDir
    mu,            \* ConfigManager.mu: [writer, readers]
    now,           \* the clock time.Now() reads
    stack,         \* per thread: the call stack of store methods
    pc,            \* per thread: position inside the method on top of the stack
    arg,           \* per thread: the arguments of the running method
    res,           \* per thread: the value the method returns
    diskOk,        \* whether configDir can be written at the moment
    send,          \* per request: where its sendRequest command stands
    outbound,      \* the http.Request a sendRequest command has built
    exchange,      \* the HTTP goroutine of one command: its response and position
    returned,      \* per thread: what a read-only store method returned to it
    startup,       \* NewConfigManager: the step it is at and how it went
    ui             \* the Bubble Tea Model that Update receives and returns

storeVars == <<Config, History, Collections, Environments, disk>>
vars == <<Config, History, Collections, Environments, disk, mu, now, stack, pc,
          arg, res, diskOk, send, outbound, exchange, returned, startup, ui>>

----------------------------------------------------------------------------
(* Bounds of the exploration *)

\* time.Now() readings explored
MaxTime == 3
\* request items held by all collections together
MaxEntries == 2
\* length of a history loaded from history.json
MaxLoaded == 3
\* seconds a sendRequest command is followed for
MaxElapsed == 7
\* tokens in a string handed to replaceEnvVars
MaxInput == 5
\* bytes of a response body that are followed one by one
MaxTail == 2
\* sendRequest commands the update loop starts in one run
MaxRequests == 3

----------------------------------------------------------------------------
(* Value domains *)

Threads == {"t1", "t2"}
\* the goroutines sendRequest starts to record the history (main.go:649)
Goroutines == {"g1", "g2"}
Procs == Threads \cup Goroutines
\* the (url, method) pairs requests are made of: two share the URL, two the method
Pairs == {<<"u1", "GET">>, <<"u1", "POST">>, <<"u2", "GET">>}
CollNames == {"Default", "work"}
\* the names SetCurrentEnv is called with; "staging" is never an environment
EnvArgs == {"production", "staging"}
None == "none"

\* RequestItem (features.go:23); ID, Name, Headers and Collections ride along
\* with Body and take no part in any comparison
NewItem(u, m, b) ==
    [url |-> u, method |-> m, body |-> b, createdAt |-> 0, lastUsed |-> 0]

\* the requests callers pass in: one per pair, and a second body for one pair
ReqItems == {NewItem(p[1], p[2], "b1") : p \in Pairs} \cup {NewItem("u1", "GET", "b2")}

\* Config as NewConfigManager builds it (features.go:81); CurrentEnv is the zero string
defaultHistLimit == 100
\* timeout := 5 * time.Second (main.go:495)
defaultTimeout == 5
\* 10*1024*1024, the ceiling on Content-Length and on the bytes read (main.go:575, 590)
bodyLimit == 10485760
\* 100*1024, above which the formatted body is a preview (main.go:633)
largeLimit == 102400
\* the bytes truncateString keeps (main.go:634, 644)
previewLen == 1000

DefaultConfig ==
    [Theme |-> "dark", Timeout |-> 30, HistoryLimit |-> defaultHistLimit,
     AutoFormatJSON |-> TRUE, SaveHistory |-> TRUE, CurrentEnv |-> "",
     ShowResponseTime |-> TRUE, TruncateResponse |-> 1000,
     SyntaxHighlighting |-> TRUE]

\* the seed environments of loadEnvironments (features.go:295)
SeedEnvironments ==
    [n \in {"development", "production"} |->
        IF n = "development"
        THEN [Name |-> n, Variables |-> [k \in {"BASE_URL", "API_KEY"} |->
                 IF k = "BASE_URL" THEN "http://localhost:3000" ELSE "dev-key-123"]]
        ELSE [Name |-> n, Variables |-> [k \in {"BASE_URL", "API_KEY"} |->
                 IF k = "BASE_URL" THEN "https://api.example.com" ELSE "prod-key-789"]]]

\* a file of configDir: absent, or holding what was last written to it
Absent(zero) == [st |-> "absent", data |-> zero]
Written(d) == [st |-> "ok", data |-> d]

NoCollections == [n \in {} |-> 0]

NoArg == [name |-> None, req |-> NewItem(None, None, None)]

\* nothing built, received or returned yet
NoValue == [kind |-> None]

\* the four files of configDir
Files == {"config", "history", "collections", "environments"}

\* NewConfigManager has returned the store (features.go:98) after it found
\* the files `found`
Started(found) == [at |-> "returned", found |-> found, errors |-> {}, result |-> "ok"]

\* NewConfigManager has returned nil and an error (features.go:69, 74)
NotStarted == [at |-> "returned", found |-> {}, errors |-> {}, result |-> "error"]

\* m.configManager is not nil (main.go:230-247 keeps whatever NewConfigManager returned)
HasStore == startup.at = "returned" /\ startup.result = "ok"

----------------------------------------------------------------------------
(* The in-memory halves of the store methods, as the code computes them *)

\* faulty variant: the de-duplication key compares the URL alone
Match_UrlOnly(item, req) == item.url = req.url

\* item.URL == req.URL && item.Method == req.Method (features.go:193, 261)
Match(item, req) == item.url = req.url /\ item.method = req.method

\* the index at which `for i, item := range s` first finds a match, 0 for none
FirstMatch(s, req) ==
    IF \E i \in 1..Len(s) : Match(s[i], req)
    THEN CHOOSE i \in 1..Len(s) :
            Match(s[i], req) /\ \A j \in 1..(i - 1) : ~Match(s[j], req)
    ELSE 0

\* append(cm.History[:i], cm.History[i+1:]...) has room in the backing array
\* of cm.History, so it shifts the tail left IN PLACE: this is what cm.History
\* (still of its old length) shows once the inner append has run
ShiftedInPlace(h, i) ==
    [k \in 1..Len(h) |-> IF k < i THEN h[k]
                          ELSE IF k < Len(h) THEN h[k + 1] ELSE h[Len(h)]]

\* append([]RequestItem{cm.History[i]}, append(cm.History[:i], cm.History[i+1:]...)...)
\* (features.go:196). Go orders function calls among themselves only: whether
\* the operand cm.History[i] of the composite literal is read before or after
\* the inner append has shifted the array is not specified, so `late` is a
\* choice of the build.
MoveToFront(h, i, late) ==
    LET front == IF late THEN ShiftedInPlace(h, i)[i] ELSE h[i]
    IN  <<front>> \o SubSeq(h, 1, i - 1) \o SubSeq(h, i + 1, Len(h))

\* addToHistory up to its call of saveHistory (features.go:192-204); t is time.Now()
AddToHistoryMem(h, req, t, late) ==
    LET i == FirstMatch(h, req)
    IN  IF i > 0
        THEN LET h1 == [h EXCEPT ![i].lastUsed = t]
             IN  IF i > 1 THEN MoveToFront(h1, i, late) ELSE h1
        ELSE <<[req EXCEPT !.createdAt = t, !.lastUsed = t]>> \o h

\* saveHistory's truncation cm.History[:cm.Config.HistoryLimit] (features.go:175)
Truncate(h, limit) == IF Len(h) > limit THEN SubSeq(h, 1, limit) ELSE h

\* faulty variant: addToCollection appends without looking for a matching entry
AddToCollectionMem_AlwaysAppend(colls, name, req) ==
    LET collection == IF name \in DOMAIN colls
                      THEN colls[name]
                      ELSE [Name |-> name, Requests |-> <<>>]
    IN  (name :> [collection EXCEPT !.Requests = Append(@, req)]) @@ colls

\* addToCollection up to its file write (features.go:252-277)
AddToCollectionMem(colls, name, req) ==
    LET collection == IF name \in DOMAIN colls
                      THEN colls[name]
                      ELSE [Name |-> name, Requests |-> <<>>]
        i == FirstMatch(collection.Requests, req)
        reqs == IF i > 0
                THEN [collection.Requests EXCEPT ![i] = req]
                ELSE Append(collection.Requests, req)
    IN  (name :> [collection EXCEPT !.Requests = reqs]) @@ colls

\* getCurrentEnvironment (features.go:355-361): the environments it may return.
\* `for _, e := range cm.Environments { return e }` returns whichever entry the
\* map iteration starts at; the zero Environment has the empty name.
ZeroEnvironment == [Name |-> "", Variables |-> [k \in {} |-> ""]]

\* faulty variant: Config.CurrentEnv is not looked up, any entry is returned
CurrentEnvironments_AnyMember(cfg, envs) ==
    IF DOMAIN envs # {} THEN {envs[n] : n \in DOMAIN envs}
    ELSE {ZeroEnvironment}

CurrentEnvironments(cfg, envs) ==
    IF cfg.CurrentEnv \in DOMAIN envs THEN {envs[cfg.CurrentEnv]}
    ELSE IF DOMAIN envs # {} THEN {envs[n] : n \in DOMAIN envs}
    ELSE {ZeroEnvironment}

TotalEntries(colls) ==
    LET RECURSIVE Sum(_)
        Sum(S) == IF S = {} THEN 0
                  ELSE LET n == CHOOSE x \in S : TRUE
                       IN  Len(colls[n].Requests) + Sum(S \ {n})
    IN  Sum(DOMAIN colls)

----------------------------------------------------------------------------
(* sync.RWMutex: Lock waits until there is no writer and no reader, RLock   *)
(* until there is no writer. The mutex is not reentrant: a goroutine that   *)
(* holds it and locks again waits like any other.                           *)

Top(t) == stack[t][Len(stack[t])]

\* the query helpers (features.go:410-470)
FindMethods == {"FindHistoryByURL", "FindHistoryByMethod", "FindCollectionByName",
                "FindRequestsInCollections"}
\* the methods that take the read lock
ReadMethods == {"getCurrentEnvironment"} \cup FindMethods
\* the methods that work on collections, environments and Config
StoreMethods == {"addToCollection", "SetCurrentEnv", "getCurrentEnvironment"}
\* the methods that work on the history
HistoryMethods == {"addToHistory", "saveHistory"}

\* a goroutine calls a method of the store
Call(t, m) ==
    /\ pc[t] = "idle"
    /\ stack' = [stack EXCEPT ![t] = <<m>>]
    /\ pc' = [pc EXCEPT ![t] = IF m \in ReadMethods THEN "rlock" ELSE "lock"]
    /\ res' = [res EXCEPT ![t] = None]
    /\ arg' = [arg EXCEPT ![t] = NoArg]
    /\ UNCHANGED <<storeVars, mu, now, diskOk>>

\* cm.mu.Lock(), the first statement of every mutating method
Lock(t) ==
    /\ pc[t] = "lock"
    /\ mu.writer = None
    /\ mu.readers = {}
    /\ mu' = [mu EXCEPT !.writer = t]
    /\ pc' = [pc EXCEPT ![t] = "locked"]
    /\ UNCHANGED <<storeVars, now, stack, arg, res, diskOk>>

\* faulty variant: a reader does not wait for the writer to finish
RLock_Barging(t) ==
    /\ pc[t] = "rlock"
    /\ mu' = [mu EXCEPT !.readers = @ \cup {t}]
    /\ pc' = [pc EXCEPT ![t] = "rlocked"]
    /\ UNCHANGED <<storeVars, now, stack, arg, res, diskOk>>

\* cm.mu.RLock() (features.go:352)
RLock(t) ==
    /\ pc[t] = "rlock"
    /\ mu.writer = None
    /\ mu' = [mu EXCEPT !.readers = @ \cup {t}]
    /\ pc' = [pc EXCEPT ![t] = "rlocked"]
    /\ UNCHANGED <<storeVars, now, stack, arg, res, diskOk>>

\* addToCollection, from after Lock to before the write (features.go:252-277)
AddToCollection(t) ==
    /\ pc[t] = "locked"
    /\ Top(t) = "addToCollection"
    /\ \E name \in CollNames, req \in ReqItems :
          /\ TotalEntries(AddToCollectionMem(Collections, name, req)) <= MaxEntries
          /\ Collections' = AddToCollectionMem(Collections, name, req)
          /\ arg' = [arg EXCEPT ![t] = [name |-> name, req |-> req]]
    /\ pc' = [pc EXCEPT ![t] = "write"]
    /\ UNCHANGED <<Config, History, Environments, disk, mu, now, stack, res, diskOk>>

\* faulty variant: SetCurrentEnv sets the name without checking that it exists
SetCurrentEnv_NoCheck(t) ==
    /\ pc[t] = "locked"
    /\ Top(t) = "SetCurrentEnv"
    /\ \E envName \in EnvArgs :
          /\ arg' = [arg EXCEPT ![t] = [name |-> envName, req |-> NoArg.req]]
          /\ Config' = [Config EXCEPT !.CurrentEnv = envName]
    /\ pc' = [pc EXCEPT ![t] = "write"]
    /\ UNCHANGED <<History, Collections, Environments, disk, mu, now, stack, res, diskOk>>

\* SetCurrentEnv, from after Lock to before saveConfigLocked (features.go:385-390)
SetCurrentEnv(t) ==
    /\ pc[t] = "locked"
    /\ Top(t) = "SetCurrentEnv"
    /\ \E envName \in EnvArgs :
          /\ arg' = [arg EXCEPT ![t] = [name |-> envName, req |-> NoArg.req]]
          /\ IF envName \notin DOMAIN Environments
             THEN /\ res' = [res EXCEPT ![t] = "notfound"]
                  /\ pc' = [pc EXCEPT ![t] = "unlock"]
                  /\ UNCHANGED Config
             ELSE /\ Config' = [Config EXCEPT !.CurrentEnv = envName]
                  /\ pc' = [pc EXCEPT ![t] = "write"]
                  /\ UNCHANGED res
    /\ UNCHANGED <<History, Collections, Environments, disk, mu, now, stack, diskOk>>

\* addToHistory, from after Lock to its call of saveHistory (features.go:192-206):
\* the callee's first statement is cm.mu.Lock() again
AddToHistory(t) ==
    /\ pc[t] = "locked"
    /\ Top(t) = "addToHistory"
    /\ now < MaxTime
    /\ \E req \in ReqItems, late \in BOOLEAN :
          /\ History' = AddToHistoryMem(History, req, now, late)
          /\ arg' = [arg EXCEPT ![t] = [name |-> None, req |-> req]]
    /\ now' = now + 1
    /\ stack' = [stack EXCEPT ![t] = Append(@, "saveHistory")]
    /\ pc' = [pc EXCEPT ![t] = "lock"]
    /\ UNCHANGED <<Config, Collections, Environments, disk, mu, res, diskOk>>

\* saveHistory, from after Lock to before the write (features.go:171-177)
SaveHistory(t) ==
    /\ pc[t] = "locked"
    /\ Top(t) = "saveHistory"
    /\ IF ~Config.SaveHistory
       THEN /\ res' = [res EXCEPT ![t] = "nil"]
            /\ pc' = [pc EXCEPT ![t] = "unlock"]
            /\ UNCHANGED History
       ELSE /\ History' = Truncate(History, Config.HistoryLimit)
            /\ pc' = [pc EXCEPT ![t] = "write"]
            /\ UNCHANGED res
    /\ UNCHANGED <<Config, Collections, Environments, disk, mu, now, stack, arg, diskOk>>

\* the file a method writes and what json.MarshalIndent gives it
FileOf(m) ==
    CASE m = "addToCollection" -> "collections"
      [] m = "SetCurrentEnv" -> "config"
      [] OTHER -> "history"

ContentOf(m) ==
    CASE m = "addToCollection" -> Collections
      [] m = "SetCurrentEnv" -> Config
      [] OTHER -> History

\* faulty variant: the error of os.WriteFile is dropped and nil returned
WriteFile_SwallowError(t) ==
    /\ pc[t] = "write"
    /\ IF diskOk
       THEN disk' = [disk EXCEPT ![FileOf(Top(t))] = Written(ContentOf(Top(t)))]
       ELSE UNCHANGED disk
    /\ res' = [res EXCEPT ![t] = "nil"]
    /\ pc' = [pc EXCEPT ![t] = "unlock"]
    /\ UNCHANGED <<Config, History, Collections, Environments, mu, now, stack, arg, diskOk>>

\* os.WriteFile (features.go:140, 185, 272, 286): it writes the file whole, or
\* fails (no space, no permission) and leaves the old file
WriteFile(t) ==
    /\ pc[t] = "write"
    /\ IF diskOk
       THEN /\ disk' = [disk EXCEPT ![FileOf(Top(t))] = Written(ContentOf(Top(t)))]
            /\ res' = [res EXCEPT ![t] = "nil"]
       ELSE /\ UNCHANGED disk
            /\ res' = [res EXCEPT ![t] = "ioerr"]
    /\ pc' = [pc EXCEPT ![t] = "unlock"]
    /\ UNCHANGED <<Config, History, Collections, Environments, mu, now, stack, arg, diskOk>>

\* the deferred cm.mu.Unlock() and the return of res[t] to the caller; a
\* caller that returns the callee's result (`return cm.saveHistory()`) runs
\* its own deferred Unlock next. Unlocking a mutex that is not locked is
\* fatal. The returned value is dropped once the goroutine is idle again.
Unlock(t) ==
    /\ pc[t] = "unlock"
    /\ IF mu.writer = t
       THEN /\ mu' = [mu EXCEPT !.writer = None]
            /\ stack' = [stack EXCEPT ![t] = SubSeq(@, 1, Len(@) - 1)]
            /\ pc' = [pc EXCEPT ![t] = IF Len(stack[t]) > 1 THEN "unlock" ELSE "idle"]
            /\ arg' = [arg EXCEPT ![t] = IF Len(stack[t]) > 1 THEN @ ELSE NoArg]
            /\ res' = [res EXCEPT ![t] = IF Len(stack[t]) > 1 THEN @ ELSE None]
       ELSE /\ pc' = [pc EXCEPT ![t] = "fatal"]
            /\ UNCHANGED <<mu, stack, arg, res>>
    /\ UNCHANGED <<storeVars, now, diskOk>>

\* getCurrentEnvironment under the read lock (features.go:355-361); res is
\* the Name of the Environment it returns
GetCurrentEnvironment(t) ==
    /\ pc[t] = "rlocked"
    /\ \E env \in CurrentEnvironments(Config, Environments) :
          res' = [res EXCEPT ![t] = env.Name]
    /\ pc' = [pc EXCEPT ![t] = "runlock"]
    /\ UNCHANGED <<storeVars, mu, now, stack, arg, diskOk>>

\* the deferred cm.mu.RUnlock() (features.go:353) and the return
RUnlock(t) ==
    /\ pc[t] = "runlock"
    /\ mu' = [mu EXCEPT !.readers = @ \ {t}]
    /\ stack' = [stack EXCEPT ![t] = <<>>]
    /\ pc' = [pc EXCEPT ![t] = "idle"]
    /\ res' = [res EXCEPT ![t] = None]
    /\ UNCHANGED <<storeVars, now, arg, diskOk>>

\* the file system under configDir stops accepting writes (it fills up, it is
\* remounted read-only)
DiskBreaks ==
    /\ diskOk
    /\ diskOk' = FALSE
    /\ UNCHANGED <<storeVars, mu, now, stack, pc, arg, res>>

----------------------------------------------------------------------------
(* Spec: the store right after NewConfigManager found no file, used by     *)
(* goroutines that call its methods in any order and interleaving          *)

TypeOK ==
    /\ mu.writer \in Procs \cup {None}
    /\ mu.readers \subseteq Procs
    /\ DOMAIN Collections \subseteq CollNames

\* no sendRequest command has been started
NoSend == [r \in Threads |->
            [caller |-> "idle", net |-> "none", chan |-> 0, elapsed |-> 0,
             timeout |-> 0, ctx |-> "none", deadline |-> 0, client |-> 0,
             backstop |-> 0, result |-> None]]

\* the commands Update can have started, by the order of their Enter presses
Requests == 1 .. MaxRequests

\* the Model initialModel returns: the method panel active, an empty URL, not
\* loading, the zero Response, no command started (main.go:235-248)
initialModel ==
    [activePanel |-> "methodPanel", url |-> FALSE, loading |-> FALSE,
     showHelp |-> FALSE, requestError |-> FALSE,
     response |-> [of |-> 0, Error |-> FALSE],
     commands |-> [i \in Requests |-> "none"]]

InitThreads ==
    /\ mu = [writer |-> None, readers |-> {}]
    /\ now = 1
    /\ stack = [t \in Procs |-> <<>>]
    /\ pc = [t \in Procs |-> "idle"]
    /\ arg = [t \in Procs |-> NoArg]
    /\ res = [t \in Procs |-> None]
    /\ diskOk = TRUE
    /\ send = NoSend
    /\ outbound = NoValue
    /\ exchange = NoValue
    /\ returned = [t \in Procs |-> NoValue]
    /\ ui = initialModel

\* NewConfigManager with none of the four files present (features.go:77-96)
Init ==
    /\ Config = DefaultConfig
    /\ History = <<>>
    /\ Collections = NoCollections
    /\ Environments = SeedEnvironments
    /\ disk = [config |-> Written(DefaultConfig),
               history |-> Absent(<<>>),
               collections |-> Absent(NoCollections),
               environments |-> Written(SeedEnvironments)]
    /\ startup = Started({})
    /\ InitThreads

Next ==
  /\ UNCHANGED <<send, outbound, exchange, returned, startup, ui>>
  /\
    \/ DiskBreaks
    \/ \E t \in Threads :
        \/ \E m \in StoreMethods : Call(t, m)
        \/ Lock(t)
        \/ RLock(t)
        \/ AddToCollection(t)
        \/ SetCurrentEnv(t)
        \/ WriteFile(t)
        \/ Unlock(t)
        \/ GetCurrentEnvironment(t)
        \/ RUnlock(t)

Spec == Init /\ [][Next]_vars

----------------------------------------------------------------------------
(* SpecHistory: the store as NewConfigManager loads it from a config.json  *)
(* and a history.json written earlier, used by goroutines that call the    *)
(* history methods                                                         *)

\* the histories loadHistory may find: no two entries with the same
\* (url, method), stamped before this run started
LoadedHistories ==
    LET Seqs(n) == [1..n -> ReqItems]
    IN  {h \in UNION {Seqs(n) : n \in 0..MaxLoaded} :
            \A i, j \in 1..Len(h) : i # j => ~Match(h[i], h[j])}

InitHistory ==
    /\ \E save \in BOOLEAN, limit \in 1..MaxLoaded :
          Config = [DefaultConfig EXCEPT !.SaveHistory = save, !.HistoryLimit = limit]
    /\ History \in LoadedHistories
    /\ Len(History) <= Config.HistoryLimit
    /\ Collections = NoCollections
    /\ Environments = SeedEnvironments
    /\ disk = [config |-> Written(Config),
               history |-> Written(History),
               collections |-> Absent(NoCollections),
               environments |-> Written(SeedEnvironments)]
    /\ diskOk = TRUE
    /\ startup = Started({"config", "history", "environments"})
    /\ InitThreads

NextHistory ==
  /\ UNCHANGED <<send, outbound, exchange, returned, startup, ui>>
  /\
    \/ DiskBreaks
    \/ \E t \in Threads :
        \/ \E m \in HistoryMethods : Call(t, m)
        \/ Lock(t)
        \/ AddToHistory(t)
        \/ SaveHistory(t)
        \/ WriteFile(t)
        \/ Unlock(t)

SpecHistory == InitHistory /\ [][NextHistory]_vars

----------------------------------------------------------------------------
(* SpecSend: sendRequest commands (main.go:492-682). Update starts one per  *)
(* Enter key without waiting for the previous one (main.go:342-347). The    *)
(* command of request r runs in goroutine r; the goroutine it starts for    *)
(* the HTTP call is send[r].net, the one that records history HistoryOf(r). *)
(* Time is counted in seconds. A step of the code takes no time; only a     *)
(* goroutine that waits lets time pass.                                     *)

HistoryOf(r) == IF r = "t1" THEN "g1" ELSE "g2"

\* faulty variant: Config.Timeout is taken as it is, zero included
TimeoutOf_NoDefault(cfg) == cfg.Timeout

\* main.go:495-498
TimeoutOf(cfg) == IF cfg.Timeout > 0 THEN cfg.Timeout ELSE defaultTimeout

\* the command is between its first statement and its return
InFlight(r) == send[r].caller \in {"resolve", "select"}

\* main.go:495-504: read the timeout (5 seconds when there is no store),
\* start the context with that deadline and, when there is a store, call
\* replaceEnvVars, whose first statement is getCurrentEnvironment's RLock
StartRequest(r) ==
    /\ send[r].caller = "idle"
    /\ pc[r] = "idle"
    /\ LET timeout == IF HasStore THEN TimeoutOf(Config) ELSE defaultTimeout
       IN  send' = [send EXCEPT ![r].caller = "resolve",
                                ![r].timeout = timeout,
                                ![r].ctx = "live",
                                ![r].deadline = timeout,
                                ![r].elapsed = 0]
    /\ IF HasStore
       THEN /\ stack' = [stack EXCEPT ![r] = <<"getCurrentEnvironment">>]
            /\ pc' = [pc EXCEPT ![r] = "rlock"]
       ELSE UNCHANGED <<stack, pc>>
    /\ UNCHANGED <<storeVars, mu, now, arg, res, diskOk>>

\* main.go:507-540, 672: replaceEnvVars has returned; http.NewRequest fails
\* and the command returns its error (the deferred cancel of main.go:501
\* runs), or the client is given its Timeout, the goroutine of the HTTP call
\* is started and the select arms time.After(timeout + 1s)
BuildRequest(r) ==
    /\ send[r].caller = "resolve"
    /\ pc[r] = "idle"
    /\ \E ok \in BOOLEAN :
          send' = IF ok
                  THEN [send EXCEPT ![r].caller = "select", ![r].net = "do",
                                    ![r].client = send[r].timeout,
                                    ![r].backstop = send[r].timeout + 1]
                  ELSE [send EXCEPT ![r].caller = "returned", ![r].result = "error",
                                    ![r].ctx = "cancelled"]
    /\ UNCHANGED <<storeVars, mu, now, stack, pc, arg, res, diskOk>>

\* faulty variant: the history goroutine is started whatever Config.SaveHistory says
NetReturns_AlwaysSubmits(r) ==
    /\ send[r].net = "do"
    /\ \E ok \in BOOLEAN :
          /\ IF ok
             THEN /\ stack' = [stack EXCEPT ![HistoryOf(r)] = <<"addToHistory">>]
                  /\ pc' = [pc EXCEPT ![HistoryOf(r)] = "lock"]
             ELSE UNCHANGED <<stack, pc>>
          /\ send' = [send EXCEPT ![r].net = IF ok THEN "done" ELSE "failed",
                                  ![r].chan = 1]
    /\ UNCHANGED <<storeVars, mu, now, arg, res, diskOk>>

\* faulty variant: resultChan has no buffer, the send waits for the receiver
NetReturns_Unbuffered(r) ==
    /\ send[r].net = "do"
    /\ send[r].caller = "select"
    /\ \E ok \in BOOLEAN :
          /\ IF ok /\ HasStore /\ Config.SaveHistory
             THEN /\ stack' = [stack EXCEPT ![HistoryOf(r)] = <<"addToHistory">>]
                  /\ pc' = [pc EXCEPT ![HistoryOf(r)] = "lock"]
             ELSE UNCHANGED <<stack, pc>>
          /\ send' = [send EXCEPT ![r].net = IF ok THEN "done" ELSE "failed",
                                  ![r].chan = 1]
    /\ UNCHANGED <<storeVars, mu, now, arg, res, diskOk>>

\* main.go:542-670: client.Do returns. On a transport error (546-571), a
\* declared length over the ceiling (575-584) or a failed read (592-602) the
\* goroutine sends an error Response and returns; otherwise it starts the
\* history goroutine when there is a store and Config.SaveHistory is set,
\* and sends the Response (648-669). resultChan has room for one Response
\* (main.go:539), so the send never waits, whatever the command is doing.
NetReturns(r) ==
    /\ send[r].net = "do"
    /\ \E ok \in BOOLEAN :
          /\ IF ok /\ HasStore /\ Config.SaveHistory
             THEN /\ stack' = [stack EXCEPT ![HistoryOf(r)] = <<"addToHistory">>]
                  /\ pc' = [pc EXCEPT ![HistoryOf(r)] = "lock"]
             ELSE UNCHANGED <<stack, pc>>
          /\ send' = [send EXCEPT ![r].net = IF ok THEN "done" ELSE "failed",
                                  ![r].chan = 1]
    /\ UNCHANGED <<storeVars, mu, now, arg, res, diskOk>>

\* main.go:673-674, and the deferred cancel of main.go:501
Receive(r) ==
    /\ send[r].caller = "select"
    /\ send[r].chan = 1
    /\ send' = [send EXCEPT ![r].caller = "returned", ![r].chan = 0,
                            ![r].result = "response", ![r].ctx = "cancelled"]
    /\ UNCHANGED <<storeVars, mu, now, stack, pc, arg, res, diskOk>>

\* faulty variant: the command returns without cancelling its context
Backstop_NoCancel(r) ==
    /\ send[r].caller = "select"
    /\ send[r].elapsed >= send[r].backstop
    /\ send' = [send EXCEPT ![r].caller = "returned", ![r].result = "forced"]
    /\ UNCHANGED <<storeVars, mu, now, stack, pc, arg, res, diskOk>>

\* main.go:675-679: time.After(timeout + 1*time.Second) fires; the deferred
\* cancel of main.go:501 runs. The goroutine of the HTTP call is left as it is.
Backstop(r) ==
    /\ send[r].caller = "select"
    /\ send[r].elapsed >= send[r].backstop
    /\ send' = [send EXCEPT ![r].caller = "returned", ![r].result = "forced",
                            ![r].ctx = "cancelled"]
    /\ UNCHANGED <<storeVars, mu, now, stack, pc, arg, res, diskOk>>

\* the command waits: in the select with nothing to receive and the timer
\* not due, or in RLock while a writer holds the mutex
Waiting(r) ==
    \/ /\ send[r].caller = "select"
       /\ send[r].chan = 0
       /\ send[r].elapsed < send[r].backstop
    \/ /\ send[r].caller = "resolve"
       /\ pc[r] = "rlock"
       /\ mu.writer # None

\* a history goroutine has no step to take
Parked(g) ==
    \/ pc[g] = "idle"
    \/ pc[g] = "lock" /\ (mu.writer # None \/ mu.readers # {})

\* one second passes while every goroutine of the store either waits or is
\* done; an HTTP call in flight may take any time
TimePasses ==
    /\ \E r \in Threads : InFlight(r)
    /\ \A r \in Threads : InFlight(r) => Waiting(r) /\ send[r].elapsed < MaxElapsed
    /\ \A g \in Goroutines : Parked(g)
    /\ send' = [r \in Threads |->
                  IF InFlight(r) THEN [send[r] EXCEPT !.elapsed = @ + 1] ELSE send[r]]
    /\ UNCHANGED <<storeVars, mu, now, stack, pc, arg, res, diskOk>>

\* NewConfigManager found a config.json (features.go:101-123) and no other
\* file, or it failed and the program runs without a store (main.go:230-233)
InitSend ==
    /\ \E save \in BOOLEAN, secs \in {0, 1} :
          Config = [DefaultConfig EXCEPT !.SaveHistory = save, !.Timeout = secs]
    /\ History = <<>>
    /\ Collections = NoCollections
    /\ Environments = SeedEnvironments
    /\ disk = [config |-> Written(Config),
               history |-> Absent(<<>>),
               collections |-> Absent(NoCollections),
               environments |-> Written(SeedEnvironments)]
    /\ startup \in {Started({"config"}), NotStarted}
    /\ InitThreads

\* saveHistory's body is not listed for the history goroutines: they reach
\* it only through addToHistory, whose Lock is still held (features.go:189)
NextSend ==
  /\ UNCHANGED <<outbound, exchange, returned, startup, ui>>
  /\
    \/ TimePasses
    \/ \E r \in Threads :
        \/ StartRequest(r)
        \/ RLock(r) /\ UNCHANGED send
        \/ GetCurrentEnvironment(r) /\ UNCHANGED send
        \/ RUnlock(r) /\ UNCHANGED send
        \/ BuildRequest(r)
        \/ NetReturns(r)
        \/ Receive(r)
        \/ Backstop(r)
    \/ \E g \in Goroutines :
        \/ Lock(g) /\ UNCHANGED send
        \/ AddToHistory(g) /\ UNCHANGED send

SpecSend == InitSend /\ [][NextSend]_vars

----------------------------------------------------------------------------
(* SpecResolve: variable substitution (features.go:364-377) and the request *)
(* sendRequest builds with it (main.go:502-537). A string is a sequence of  *)
(* tokens, each token a piece of text: the two delimiters, a variable name, *)
(* a plain character. No goroutine writes the store here, so the RLock of   *)
(* getCurrentEnvironment never waits.                                       *)

Open == "{{"
Close == "}}"
VarNames == {"A", "B"}
InputTokens == {Open, Close} \cup VarNames
\* the values environments.json gives a variable
VarValues == {<<"x">>, <<"B">>, <<Open, "B", Close>>}

\* the strings of at most n tokens
Strings(n) == UNION {[1..k -> InputTokens] : k \in 0..n}

\* fmt.Sprintf("{{%s}}", key) (features.go:373)
Placeholder(key) == <<Open, key, Close>>

\* strings.ReplaceAll(s, old, new) for a non-empty old: the non-overlapping
\* instances of old, found from the left
RECURSIVE ReplaceAll(_, _, _)
ReplaceAll(s, old, new) ==
    IF Len(s) < Len(old) THEN s
    ELSE IF SubSeq(s, 1, Len(old)) = old
         THEN new \o ReplaceAll(SubSeq(s, Len(old) + 1, Len(s)), old, new)
         ELSE <<s[1]>> \o ReplaceAll(Tail(s), old, new)

\* the loop of replaceEnvVars (features.go:371-375) visiting the keys in the
\* order `order`
RECURSIVE ReplaceInOrder(_, _, _)
ReplaceInOrder(input, variables, order) ==
    IF order = <<>> THEN input
    ELSE ReplaceInOrder(ReplaceAll(input, Placeholder(order[1]), variables[order[1]]),
                        variables, Tail(order))

\* the orders in which `range env.Variables` may visit the keys: Go leaves
\* the iteration order of a map unspecified
KeyOrders(variables) ==
    LET K == DOMAIN variables
    IN  {o \in [1..Cardinality(K) -> K] : \A i, j \in DOMAIN o : i # j => o[i] # o[j]}

\* replaceEnvVars(input): what it may return
ReplaceEnvVars(input, cfg, envs) ==
    UNION {{ReplaceInOrder(input, env.Variables, o) : o \in KeyOrders(env.Variables)} :
              env \in CurrentEnvironments(cfg, envs)}

\* a goroutine calls replaceEnvVars (features.go:364-377)
CallReplaceEnvVars(t) ==
    /\ returned[t] = NoValue
    /\ \E input \in Strings(MaxInput) :
          \E out \in ReplaceEnvVars(input, Config, Environments) :
             returned' = [returned EXCEPT ![t] =
                            [kind |-> "resolved", input |-> input, output |-> out]]
    /\ UNCHANGED <<storeVars, mu, now, stack, pc, arg, res, diskOk, send, outbound, exchange>>

\* what the user typed into the URL, headers and body fields: a header line
\* is "Name: value", of which parseHeaders keeps the trimmed value
TypedText == {<<"A">>, Placeholder("A")}

\* sendRequest up to req.WithContext (main.go:502-537): the URL goes through
\* replaceEnvVars, the header value comes from parseHeaders(m.headersInput.Value())
\* and the body from m.bodyInput.Value(); a GET or HEAD request has no body;
\* http.NewRequest may reject the method or the URL
BuildOutbound(t) ==
    /\ returned[t] = NoValue
    /\ \E url \in {Placeholder("A")}, header \in TypedText, body \in TypedText,
          method \in {"GET", "POST"}, ok \in BOOLEAN :
          \E out \in ReplaceEnvVars(url, Config, Environments) :
             /\ returned' = [returned EXCEPT ![t] =
                               [kind |-> "resolved", input |-> url, output |-> out]]
             /\ outbound' =
                  IF ok
                  THEN [kind |-> "request",
                        typed |-> [url |-> url, header |-> header, body |-> body],
                        method |-> method,
                        url |-> out,
                        header |-> header,
                        body |-> IF method \in {"GET", "HEAD"} THEN <<>> ELSE body]
                  ELSE [kind |-> "error"]
    /\ UNCHANGED <<storeVars, mu, now, stack, pc, arg, res, diskOk, send, exchange>>

\* the caller is done with the string or the request it got
Discard(t) ==
    /\ returned[t] # NoValue
    /\ returned' = [returned EXCEPT ![t] = NoValue]
    /\ outbound' = NoValue
    /\ UNCHANGED <<storeVars, mu, now, stack, pc, arg, res, diskOk, send, exchange>>

\* the environments loadEnvironments reads from environments.json
\* (features.go:289-336): "dev" with any variables, "prod" with none
LoadedEnvironments ==
    {[n \in {"dev", "prod"} |->
        [Name |-> n, Variables |-> IF n = "dev" THEN v ELSE [k \in {} |-> <<>>]]] :
     v \in UNION {[K -> VarValues] : K \in SUBSET VarNames}}

\* NewConfigManager found a config.json and an environments.json
InitResolve ==
    /\ \E cur \in {"dev", "prod", ""} : Config = [DefaultConfig EXCEPT !.CurrentEnv = cur]
    /\ History = <<>>
    /\ Collections = NoCollections
    /\ Environments \in LoadedEnvironments
    /\ disk = [config |-> Written(Config),
               history |-> Absent(<<>>),
               collections |-> Absent(NoCollections),
               environments |-> Written(Environments)]
    /\ startup = Started({"config", "environments"})
    /\ InitThreads

NextResolve ==
  /\ UNCHANGED <<startup, ui>>
  /\
    \/ CallReplaceEnvVars("t1")
    \/ BuildOutbound("t1")
    \/ Discard("t1")

SpecResolve == InitResolve /\ [][NextResolve]_vars

----------------------------------------------------------------------------
(* SpecResponse: the goroutine sendRequest starts for the HTTP call         *)
(* (main.go:542-670), followed from the return of client.Do to the send on  *)
(* resultChan. A body is `pad` ASCII bytes followed by `tail`, a sequence   *)
(* of units: "a" an ASCII byte, "u" a two-byte UTF-8 character, "x" a byte  *)
(* that is not valid UTF-8. Decoding adds the units "r" (U+FFFD, three      *)
(* bytes) and "l", "w" (a character an ISO-8859-1 or Windows-1252 decoder   *)
(* makes of a byte above 0x7F, two bytes).                                  *)

Units == {"a", "u", "x"}
Bodies ==
    {[pad |-> n, tail |-> t] :
        n \in {0, previewLen, largeLimit, bodyLimit - 1, bodyLimit + 5},
        t \in UNION {[1..k -> Units] : k \in 0..MaxTail}}
EmptyBody == [pad |-> 0, tail |-> <<>>]

\* resp.ContentLength: -1 when the server declares none
ContentLengths == {-1, 0, bodyLimit, bodyLimit + 1}
\* the Content-Type header: a media type and the text after "charset="
ContentTypes ==
    {[media |-> m, charset |-> c] :
        m \in {"application/json", "text/html", "text/plain"},
        c \in {"", "utf-8", "iso-8859-1", "bogus"}}
NoHeaders == [media |-> "", charset |-> ""]

Width(u) == CASE u \in {"a", "x"} -> 1
              [] u \in {"u", "l", "w"} -> 2
              [] OTHER -> 3

\* len(b) in bytes
RECURSIVE TailLen(_)
TailLen(t) == IF t = <<>> THEN 0 ELSE Width(t[1]) + TailLen(Tail(t))
ByteLen(b) == b.pad + TailLen(b.tail)

\* what io.Copy gets out of io.LimitReader(resp.Body, n) (main.go:590-591):
\* the first n bytes of the body
RECURSIVE TakeBytes(_, _)
TakeBytes(t, n) ==
    IF t = <<>> \/ Width(t[1]) > n THEN <<>>
    ELSE <<t[1]>> \o TakeBytes(Tail(t), n - Width(t[1]))

\* faulty variant: the body is read without a limit
LimitReader_Unlimited(b, n) == b

LimitReader(b, n) ==
    IF b.pad >= n THEN [pad |-> n, tail |-> <<>>]
    ELSE [pad |-> b.pad, tail |-> TakeBytes(b.tail, n - b.pad)]

\* main.go:606-612: "utf-8" unless the header has a charset
EncodingOf(contentType) ==
    IF contentType.charset = "" THEN "utf-8" ELSE contentType.charset

\* the names htmlindex.Get knows, among those explored
KnownEncodings == {"utf-8", "iso-8859-1", "windows-1252", "shift-jis", "gbk", "big5"}

\* enc.NewDecoder() applied to the bytes: a single-byte decoder turns every
\* byte above 0x7F into a character, the others turn a byte they cannot
\* decode into U+FFFD; none of them fails
DecodeUnit(enc, u) ==
    CASE u = "a" -> <<"a">>
      [] enc = "iso-8859-1" -> IF u = "u" THEN <<"l", "l">> ELSE <<"l">>
      [] enc = "windows-1252" -> IF u = "u" THEN <<"w", "w">> ELSE <<"w">>
      [] OTHER -> IF u = "u" THEN <<"u">> ELSE <<"r">>

RECURSIVE DecodeTail(_, _)
DecodeTail(enc, t) ==
    IF t = <<>> THEN <<>> ELSE DecodeUnit(enc, t[1]) \o DecodeTail(enc, Tail(t))

DecodeWith(enc, b) == [pad |-> b.pad, tail |-> DecodeTail(enc, b.tail)]

\* faulty variant: invalid bytes are dropped instead of replaced
ReplaceInvalid_Drop(b) ==
    [pad |-> b.pad, tail |-> SelectSeq(b.tail, LAMBDA u : u # "x")]

\* strings.Map over string(respBody) (main.go:624-629): ranging over a string
\* yields utf8.RuneError for every invalid byte, which becomes U+FFFD
ReplaceInvalid(b) ==
    [pad |-> b.pad, tail |-> [i \in 1..Len(b.tail) |->
                                 IF b.tail[i] = "x" THEN "r" ELSE b.tail[i]]]

\* main.go:614-630: a declared charset other than utf-8/UTF-8 that
\* htmlindex knows decodes the body; in every other case the bytes are kept
\* and the invalid ones replaced
Decode(respBody, encoding) ==
    IF encoding \notin {"utf-8", "UTF-8"} /\ encoding \in KnownEncodings
    THEN DecodeWith(encoding, respBody)
    ELSE ReplaceInvalid(respBody)

\* tryAlternativeEncodings (main.go:844-856), which no code calls: the
\* output of the first encoding of the list whose decoder succeeds
tryAlternativeEncodings(input) ==
    LET encodings == <<"windows-1252", "iso-8859-1", "shift-jis", "gbk", "big5">>
    IN  DecodeWith(encodings[1], input)

\* truncateString(s, n) (main.go:286-291): s, or its first n bytes
\* followed by the truncation notice
truncateString(s, n) ==
    IF ByteLen(s) <= n
    THEN [of |-> s, bytes |-> ByteLen(s), notice |-> FALSE]
    ELSE [of |-> s, bytes |-> n, notice |-> TRUE]

Whole(s) == [of |-> s, bytes |-> ByteLen(s), notice |-> FALSE]

\* main.go:632-646; json says whether json.Indent accepts the decoded body
Format(decodedBody, auto, contentType, json) ==
    IF ByteLen(decodedBody) > largeLimit
    THEN [kind |-> "large", text |-> truncateString(decodedBody, previewLen)]
    ELSE IF auto
         THEN IF contentType.media = "application/json"
              THEN [kind |-> IF json THEN "pretty" ELSE "indenterror",
                    text |-> Whole(decodedBody)]
              ELSE IF contentType.media = "text/html"
                   THEN [kind |-> "html", text |-> truncateString(decodedBody, previewLen)]
                   ELSE [kind |-> "raw", text |-> Whole(decodedBody)]
         ELSE [kind |-> "raw", text |-> Whole(decodedBody)]

NoFormat == [kind |-> "empty", text |-> Whole(EmptyBody)]

\* resp.Status: the code and the reason phrase of the status line
StatusText(status) == IF status = 200 THEN "200 OK" ELSE "404 Not Found"

\* the zero Response
NoResponse ==
    [Error |-> "nil", StatusCode |-> 0, Status |-> "", Headers |-> NoHeaders,
     ContentLength |-> 0,
     Body |-> EmptyBody, FormattedBody |-> NoFormat, ResponseTime |-> FALSE]

\* the goroutine before client.Do has returned
NoExchange ==
    [kind |-> "exchange", pc |-> "do", StatusCode |-> 0, Status |-> "",
     contentLength |-> 0,
     sent |-> EmptyBody, contentType |-> NoHeaders, json |-> FALSE, read |-> 0,
     respBody |-> EmptyBody, decodedBody |-> EmptyBody, formattedBody |-> NoFormat,
     submitted |-> FALSE, response |-> NoResponse]

\* what resp.Body yields: with a declared length the transport hands over at
\* most that many bytes, and fails when the server sends fewer
Delivered(body, length) ==
    IF length >= 0 THEN LimitReader(body, length) ELSE body

\* client.Do returns (main.go:543-571): an error, answered with an error
\* Response, or the status line and headers of a response whose body is
\* still to be read
DoReturns ==
    /\ exchange = NoValue
    /\ \/ exchange' = [NoExchange EXCEPT
                          !.pc = "sent",
                          !.response = [NoResponse EXCEPT !.Error = "transport",
                                                          !.ResponseTime = TRUE]]
       \/ \E status \in {200, 404}, length \in ContentLengths, body \in Bodies,
             ct \in ContentTypes, json \in BOOLEAN :
             exchange' = [NoExchange EXCEPT
                             !.pc = "check", !.StatusCode = status,
                             !.Status = StatusText(status),
                             !.contentLength = length, !.sent = body,
                             !.contentType = ct, !.json = json]
    /\ UNCHANGED <<storeVars, mu, now, stack, pc, arg, res, diskOk, send, outbound, returned>>

\* faulty variant: the error Response carries no content length
TooLarge_NoLength(x) ==
    [NoResponse EXCEPT !.Error = "toolarge", !.StatusCode = x.StatusCode,
                       !.Status = x.Status,
                       !.Headers = x.contentType, !.ResponseTime = TRUE]

\* faulty variant: the error Response carries what the server sent
TooLarge_WithBody(x) ==
    [NoResponse EXCEPT !.Error = "toolarge", !.StatusCode = x.StatusCode,
                       !.Status = x.Status,
                       !.Headers = x.contentType, !.ResponseTime = TRUE,
                       !.ContentLength = x.contentLength, !.Body = x.sent]

\* the Response for a declared length over the ceiling (main.go:576-583)
TooLarge(x) ==
    [NoResponse EXCEPT !.Error = "toolarge", !.StatusCode = x.StatusCode,
                       !.Status = x.Status,
                       !.Headers = x.contentType, !.ResponseTime = TRUE,
                       !.ContentLength = x.contentLength]

\* main.go:574-587
CheckLength ==
    /\ exchange.kind = "exchange"
    /\ exchange.pc = "check"
    /\ exchange' = IF exchange.contentLength > bodyLimit
                   THEN [exchange EXCEPT !.pc = "sent", !.response = TooLarge(exchange)]
                   ELSE [exchange EXCEPT !.pc = "read"]
    /\ UNCHANGED <<storeVars, mu, now, stack, pc, arg, res, diskOk, send, outbound, returned>>

\* main.go:589-603: io.Copy from the limited reader; it fails when the
\* connection breaks or the body ends before the declared length
ReadBody ==
    /\ exchange.kind = "exchange"
    /\ exchange.pc = "read"
    /\ LET body == Delivered(exchange.sent, exchange.contentLength)
           short == exchange.contentLength > ByteLen(exchange.sent)
       IN  \E broken \in BOOLEAN :
              exchange' =
                 IF broken \/ short
                 THEN [exchange EXCEPT
                          !.pc = "sent",
                          !.response = [NoResponse EXCEPT
                                           !.Error = "readfailed",
                                           !.StatusCode = exchange.StatusCode,
                                           !.Status = exchange.Status,
                                           !.Headers = exchange.contentType,
                                           !.ResponseTime = TRUE,
                                           !.ContentLength = exchange.contentLength]]
                 ELSE [exchange EXCEPT
                          !.pc = "decode",
                          !.respBody = LimitReader(body, bodyLimit),
                          !.read = ByteLen(LimitReader(body, bodyLimit))]
    /\ UNCHANGED <<storeVars, mu, now, stack, pc, arg, res, diskOk, send, outbound, returned>>

\* main.go:605-630
DecodeBody ==
    /\ exchange.kind = "exchange"
    /\ exchange.pc = "decode"
    /\ exchange' = [exchange EXCEPT
                       !.pc = "format",
                       !.decodedBody = Decode(exchange.respBody,
                                              EncodingOf(exchange.contentType))]
    /\ UNCHANGED <<storeVars, mu, now, stack, pc, arg, res, diskOk, send, outbound, returned>>

\* main.go:632-646, reading Config.AutoFormatJSON
FormatBody ==
    /\ exchange.kind = "exchange"
    /\ exchange.pc = "format"
    /\ exchange' = [exchange EXCEPT
                       !.pc = "submit",
                       !.formattedBody = Format(exchange.decodedBody, Config.AutoFormatJSON,
                                                exchange.contentType, exchange.json)]
    /\ UNCHANGED <<storeVars, mu, now, stack, pc, arg, res, diskOk, send, outbound, returned>>

\* main.go:648-669: the history goroutine is started when Config.SaveHistory
\* is set (SpecSend follows that goroutine), then the Response is sent
SubmitAndSend ==
    /\ exchange.kind = "exchange"
    /\ exchange.pc = "submit"
    /\ exchange' = [exchange EXCEPT
                       !.pc = "sent",
                       !.submitted = Config.SaveHistory,
                       !.response = [Error |-> "nil",
                                     StatusCode |-> exchange.StatusCode,
                                     Status |-> exchange.Status,
                                     Headers |-> exchange.contentType,
                                     ContentLength |-> exchange.contentLength,
                                     Body |-> exchange.respBody,
                                     FormattedBody |-> exchange.formattedBody,
                                     ResponseTime |-> TRUE]]
    /\ UNCHANGED <<storeVars, mu, now, stack, pc, arg, res, diskOk, send, outbound, returned>>

\* the command that started the goroutine (main.go:517-520): http.NewRequest
\* fails, no goroutine is started and the command returns the error
RejectRequest ==
    /\ exchange = NoValue
    /\ returned["t1"] = NoValue
    /\ exchange' = [kind |-> "rejected"]
    /\ returned' = [returned EXCEPT !["t1"] =
                      [kind |-> "response",
                       response |-> [NoResponse EXCEPT !.Error = "newrequest"]]]
    /\ UNCHANGED <<storeVars, mu, now, stack, pc, arg, res, diskOk, send, outbound>>

\* main.go:673-674: the command takes the Response out of resultChan and
\* returns it
ReceiveResponse ==
    /\ exchange.kind = "exchange"
    /\ exchange.pc = "sent"
    /\ returned["t1"] = NoValue
    /\ returned' = [returned EXCEPT !["t1"] =
                      [kind |-> "response", response |-> exchange.response]]
    /\ UNCHANGED <<storeVars, mu, now, stack, pc, arg, res, diskOk, send, outbound,
                   exchange>>

\* main.go:675-679: the timer fires, wherever the goroutine stands, and the
\* command returns the forced timeout
ForcedTimeout ==
    /\ exchange.kind # "rejected"
    /\ returned["t1"] = NoValue
    /\ returned' = [returned EXCEPT !["t1"] =
                      [kind |-> "response",
                       response |-> [NoResponse EXCEPT !.Error = "forced",
                                                       !.ResponseTime = TRUE]]]
    /\ UNCHANGED <<storeVars, mu, now, stack, pc, arg, res, diskOk, send, outbound,
                   exchange>>

\* NewConfigManager found a config.json (features.go:101-123) and no other file
InitResponse ==
    /\ \E auto \in BOOLEAN, save \in BOOLEAN :
          Config = [DefaultConfig EXCEPT !.AutoFormatJSON = auto, !.SaveHistory = save]
    /\ History = <<>>
    /\ Collections = NoCollections
    /\ Environments = SeedEnvironments
    /\ disk = [config |-> Written(Config),
               history |-> Absent(<<>>),
               collections |-> Absent(NoCollections),
               environments |-> Written(SeedEnvironments)]
    /\ startup = Started({"config"})
    /\ InitThreads

NextResponse ==
  /\ UNCHANGED <<startup, ui>>
  /\
    \/ DoReturns
    \/ CheckLength
    \/ ReadBody
    \/ DecodeBody
    \/ FormatBody
    \/ SubmitAndSend
    \/ RejectRequest
    \/ ReceiveResponse
    \/ ForcedTimeout

SpecResponse == InitResponse /\ [][NextResponse]_vars

----------------------------------------------------------------------------
(* SpecQuery: the query helpers (features.go:410-470) next to the methods   *)
(* that change what they read. A result is kept by the goroutine that got   *)
(* it until its next query. A Collection of a result is a copy of the       *)
(* struct, so its Requests slice points at the array the store's Collection *)
(* points at: `shared` names the collections for which that is still so.    *)

\* strings.ToLower over the names explored
ToLower(s) == CASE s = "Default" -> "default"
                [] s = "WORK" -> "work"
                [] OTHER -> s

\* strings.Contains(s, sub) over the strings explored: sub is empty, all of
\* s, or the first letter of a URL
Contains(s, sub) == sub = "" \/ s = sub \/ (sub = "u" /\ s \in {"u1", "u2"})

\* strings.EqualFold(a, b) over the methods explored
EqualFold(a, b) ==
    LET Fold(x) == CASE x = "get" -> "GET" [] x = "post" -> "POST" [] OTHER -> x
    IN  Fold(a) = Fold(b)

\* the orders in which `range cm.Collections` may visit the collections
NameOrders(colls) ==
    LET K == DOMAIN colls
    IN  {o \in [1..Cardinality(K) -> K] : \A i, j \in DOMAIN o : i # j => o[i] # o[j]}

RECURSIVE Flatten(_)
Flatten(ss) == IF ss = <<>> THEN <<>> ELSE ss[1] \o Flatten(Tail(ss))

\* FindHistoryByURL (features.go:414-421): copies of the matching items
FindHistoryByURL(h, url) == SelectSeq(h, LAMBDA item : Contains(item.url, url))

\* FindHistoryByMethod (features.go:429-436)
FindHistoryByMethod(h, method) == SelectSeq(h, LAMBDA item : EqualFold(item.method, method))

\* FindCollectionByName (features.go:444-451), visiting in the order `order`
FindCollectionByName(colls, name, order) ==
    SelectSeq([i \in DOMAIN order |-> colls[order[i]]],
              LAMBDA c : Contains(ToLower(c.Name), ToLower(name)))

\* FindRequestsInCollections (features.go:459-469), visiting in the order `order`
FindRequestsInCollections(colls, urlSubstr, methodSubstr, order) ==
    Flatten([i \in DOMAIN order |->
                SelectSeq(colls[order[i]].Requests,
                          LAMBDA req : /\ (urlSubstr = "" \/ Contains(req.url, urlSubstr))
                                       /\ (methodSubstr = "" \/ EqualFold(req.method, methodSubstr)))])

\* a query helper under the read lock, up to its deferred RUnlock
Find(t) ==
    /\ pc[t] = "rlocked"
    /\ Top(t) \in FindMethods
    /\ \/ /\ Top(t) = "FindHistoryByURL"
          /\ \E url \in {"u", "u1"} :
                returned' = [returned EXCEPT ![t] =
                    [kind |-> "requests", items |-> FindHistoryByURL(History, url),
                     shared |-> {}]]
       \/ /\ Top(t) = "FindHistoryByMethod"
          /\ \E method \in {"get"} :
                returned' = [returned EXCEPT ![t] =
                    [kind |-> "requests", items |-> FindHistoryByMethod(History, method),
                     shared |-> {}]]
       \/ /\ Top(t) = "FindCollectionByName"
          /\ \E name \in {"", "WORK"}, order \in NameOrders(Collections) :
                LET items == FindCollectionByName(Collections, name, order)
                IN  returned' = [returned EXCEPT ![t] =
                       [kind |-> "collections", items |-> items,
                        shared |-> {items[i].Name : i \in DOMAIN items}]]
       \/ /\ Top(t) = "FindRequestsInCollections"
          /\ \E urlSubstr \in {"", "u1"}, methodSubstr \in {"", "get"},
                order \in NameOrders(Collections) :
                returned' = [returned EXCEPT ![t] =
                    [kind |-> "requests",
                     items |-> FindRequestsInCollections(Collections, urlSubstr,
                                                         methodSubstr, order),
                     shared |-> {}]]
    /\ pc' = [pc EXCEPT ![t] = "runlock"]
    /\ UNCHANGED <<storeVars, mu, now, stack, arg, res, diskOk>>

\* what a kept result shows once addToCollection(name, req) has run on the
\* collections `colls`. collection.Requests[i] = req (features.go:262)
\* writes into the array a shared result points at. append (features.go:274)
\* writes behind the end of the result's slice when the array has room and
\* moves the store's slice to a new array when it has not; which of the two
\* depends on the capacity the runtime gave the array (`moved`).
Aliased(r, colls, name, req, moved) ==
    IF r.kind # "collections" \/ name \notin r.shared THEN r
    ELSE LET i == FirstMatch(colls[name].Requests, req)
         IN  IF i > 0
             THEN [r EXCEPT !.items =
                      [k \in DOMAIN r.items |->
                          IF r.items[k].Name = name /\ i <= Len(r.items[k].Requests)
                          THEN [r.items[k] EXCEPT !.Requests[i] = req]
                          ELSE r.items[k]]]
             ELSE IF moved THEN [r EXCEPT !.shared = @ \ {name}] ELSE r

\* addToCollection as in Spec, with its effect on the results kept
AddToCollectionAliased(t) ==
    /\ AddToCollection(t)
    /\ \E moved \in BOOLEAN :
          returned' = [h \in Procs |->
                          Aliased(returned[h], Collections, arg'[t].name, arg'[t].req, moved)]

InitQuery ==
    /\ Config = DefaultConfig
    /\ History \in {<<>>, <<NewItem("u1", "GET", "b1")>>}
    /\ Collections = NoCollections
    /\ Environments = SeedEnvironments
    /\ disk = [config |-> Written(DefaultConfig),
               history |-> Written(History),
               collections |-> Absent(NoCollections),
               environments |-> Written(SeedEnvironments)]
    /\ startup = Started({"history"})
    /\ InitThreads

\* t1 is the goroutine that queries, t2 the one that records and saves
MethodsOf(t) == IF t = "t1" THEN FindMethods ELSE {"addToCollection", "addToHistory"}

NextQuery ==
  /\ UNCHANGED <<send, outbound, exchange, startup, ui>>
  /\
    \/ \E t \in Threads :
        \/ \E m \in MethodsOf(t) : Call(t, m) /\ UNCHANGED returned
        \/ Lock(t) /\ UNCHANGED returned
        \/ RLock(t) /\ UNCHANGED returned
        \/ Find(t)
        \/ RUnlock(t) /\ UNCHANGED returned
        \/ AddToCollectionAliased(t)
        \/ AddToHistory(t) /\ UNCHANGED returned
        \/ WriteFile(t) /\ UNCHANGED returned
        \/ Unlock(t) /\ UNCHANGED returned

SpecQuery == InitQuery /\ [][NextQuery]_vars

----------------------------------------------------------------------------
(* SpecStartup: NewConfigManager (features.go:66-99) run against whatever   *)
(* an earlier run or an editor left in configDir, then goroutines that read *)
(* and set the current environment of the store it returned. No other       *)
(* goroutine exists while NewConfigManager runs, so each load method is one *)
(* step: its Lock never waits and its deferred Unlock closes the step.      *)

\* a file that os.Open refuses, and one whose content json.Unmarshal rejects
Unreadable(zero) == [st |-> "unreadable", data |-> zero]
Corrupt(zero) == [st |-> "corrupt", data |-> zero]

\* make(map[string]Environment) (features.go:79)
NoEnvironments == [n \in {} |-> 0]

\* what config.json may hold: the current environment is unset, a seed, or
\* the name of an environment that is gone
StoredConfigs == {[DefaultConfig EXCEPT !.CurrentEnv = c] : c \in {"", "production", "staging"}}
StoredHistories == {<<NewItem("u1", "GET", "b1")>>}
StoredCollections ==
    {"Default" :> [Name |-> "Default", Requests |-> <<NewItem("u1", "GET", "b1")>>]}
\* environments.json may hold the empty object
StoredEnvironments == {NoEnvironments, SeedEnvironments}

\* the states configDir may be in when the program starts
FileStates(zero, contents) ==
    {Absent(zero), Unreadable(zero), Corrupt(zero)} \cup {Written(d) : d \in contents}

\* the error of a load method that found its file: os.Open or io.ReadAll
\* fails, or json.Unmarshal does (features.go:111-122)
ReadError(file) ==
    CASE file.st = "unreadable" -> "open"
      [] file.st = "corrupt" -> "json"
      [] OTHER -> "nil"

\* the error of a default being written (features.go:108, 319)
SeedError == IF diskOk THEN "nil" ELSE "ioerr"

\* startup after a load method returned err: NewConfigManager calls each of
\* them as a statement (features.go:93-96), so err goes nowhere; errors
\* keeps which calls returned one
Loaded(f, err, next) ==
    [startup EXCEPT !.at = next,
                    !.errors = IF err = "nil" THEN @ ELSE @ \cup {f}]

\* os.UserHomeDir and os.MkdirAll (features.go:67-75): on an error
\* NewConfigManager returns nil and the error
MkConfigDir ==
    /\ startup.at = "mkdir"
    /\ \E ok \in BOOLEAN :
          startup' = IF ok THEN [startup EXCEPT !.at = "loadConfig"]
                     ELSE [startup EXCEPT !.at = "returned", !.result = "error"]
    /\ UNCHANGED <<storeVars, mu, now, stack, pc, arg, res, diskOk, send, outbound,
                   exchange, returned>>

\* loadConfig (features.go:101-123): no file, so the defaults of the struct
\* literal are written; otherwise the file is decoded over them. A document
\* that is not JSON leaves the target untouched.
LoadConfig ==
    /\ startup.at = "loadConfig"
    /\ LET file == disk.config
           err == IF file.st = "absent" THEN SeedError ELSE ReadError(file)
       IN  /\ Config' = IF file.st = "ok" THEN file.data ELSE Config
           /\ disk' = IF file.st = "absent" /\ diskOk
                      THEN [disk EXCEPT !.config = Written(Config)]
                      ELSE disk
           /\ startup' = Loaded("config", err, "loadHistory")
    /\ UNCHANGED <<History, Collections, Environments, mu, now, stack, pc, arg, res,
                   diskOk, send, outbound, exchange, returned>>

\* loadHistory (features.go:143-165)
LoadHistory ==
    /\ startup.at = "loadHistory"
    /\ LET file == disk.history
       IN  /\ History' = CASE file.st = "absent" -> <<>>
                           [] file.st = "ok" -> file.data
                           [] OTHER -> History
           /\ startup' = Loaded("history", ReadError(file), "loadCollections")
    /\ UNCHANGED <<Config, Collections, Environments, disk, mu, now, stack, pc, arg,
                   res, diskOk, send, outbound, exchange, returned>>

\* loadCollections (features.go:209-232)
LoadCollections ==
    /\ startup.at = "loadCollections"
    /\ LET file == disk.collections
       IN  /\ Collections' = CASE file.st = "absent" -> NoCollections
                               [] file.st = "ok" -> file.data
                               [] OTHER -> Collections
           /\ startup' = Loaded("collections", ReadError(file), "loadEnvironments")
    /\ UNCHANGED <<Config, History, Environments, disk, mu, now, stack, pc, arg, res,
                   diskOk, send, outbound, exchange, returned>>

\* loadEnvironments (features.go:289-336): no file, so the two seeds are set
\* and written; otherwise the file is decoded into the empty map
LoadEnvironments ==
    /\ startup.at = "loadEnvironments"
    /\ LET file == disk.environments
           err == IF file.st = "absent" THEN SeedError ELSE ReadError(file)
       IN  /\ Environments' = CASE file.st = "absent" -> SeedEnvironments
                                [] file.st = "ok" -> file.data
                                [] OTHER -> Environments
           /\ disk' = IF file.st = "absent" /\ diskOk
                      THEN [disk EXCEPT !.environments = Written(SeedEnvironments)]
                      ELSE disk
           /\ startup' = Loaded("environments", err, "return")
    /\ UNCHANGED <<Config, History, Collections, mu, now, stack, pc, arg, res, diskOk,
                   send, outbound, exchange, returned>>

\* return cm, nil (features.go:98)
ReturnStore ==
    /\ startup.at = "return"
    /\ startup' = [startup EXCEPT !.at = "returned", !.result = "ok"]
    /\ UNCHANGED <<storeVars, mu, now, stack, pc, arg, res, diskOk, send, outbound,
                   exchange, returned>>

\* getCurrentEnvironment under the read lock, with the Environment it hands
\* to its caller (features.go:355-361)
CurrentEnvironment(t) ==
    /\ GetCurrentEnvironment(t)
    /\ \E env \in CurrentEnvironments(Config, Environments) :
          /\ env.Name = res'[t]
          /\ returned' = [returned EXCEPT ![t] = [kind |-> "environment", env |-> env]]

\* the caller has used the Environment
Returns(t) ==
    /\ RUnlock(t)
    /\ returned' = [returned EXCEPT ![t] = NoValue]

\* the program starts: the struct literal of features.go:76-91 is in memory,
\* configDir is as it was left
InitStartup ==
    /\ Config = DefaultConfig
    /\ History = <<>>
    /\ Collections = NoCollections
    /\ Environments = NoEnvironments
    /\ disk \in [config : FileStates(DefaultConfig, StoredConfigs),
                 history : FileStates(<<>>, StoredHistories),
                 collections : FileStates(NoCollections, StoredCollections),
                 environments : FileStates(NoEnvironments, StoredEnvironments)]
    /\ InitThreads
    /\ startup = [at |-> "mkdir",
                  found |-> {f \in Files : disk[f].st # "absent"},
                  errors |-> {},
                  result |-> None]

\* t1 reads the current environment, t2 sets it
NextStartup ==
  /\ UNCHANGED <<send, outbound, exchange, ui>>
  /\
    \/ MkConfigDir
    \/ LoadConfig
    \/ LoadHistory
    \/ LoadCollections
    \/ LoadEnvironments
    \/ ReturnStore
    \/ DiskBreaks /\ UNCHANGED <<returned, startup>>
    \/ /\ HasStore
       /\ UNCHANGED startup
       /\ \/ Call("t1", "getCurrentEnvironment") /\ UNCHANGED returned
          \/ RLock("t1") /\ UNCHANGED returned
          \/ CurrentEnvironment("t1")
          \/ Returns("t1")
          \/ Call("t2", "SetCurrentEnv") /\ UNCHANGED returned
          \/ Lock("t2") /\ UNCHANGED returned
          \/ SetCurrentEnv("t2") /\ UNCHANGED returned
          \/ WriteFile("t2") /\ UNCHANGED returned
          \/ Unlock("t2") /\ UNCHANGED returned

SpecStartup == InitStartup /\ [][NextStartup]_vars

----------------------------------------------------------------------------
(* SpecRepeat: replaceEnvVars (features.go:364-377) called again and again  *)
(* on the store NewConfigManager has just seeded, next to SetCurrentEnv.    *)
(* A goroutine keeps what its last call returned until its next call.       *)

\* the variables of a seed environment as strings of tokens: a seed value
\* holds no delimiter and no variable name, so it is one token
Tokens(variables) == [k \in DOMAIN variables |-> <<variables[k]>>]

\* the strings replaceEnvVars is called with
RepeatInputs == {<<Open, "BASE_URL", Close>>, <<"x", Open, "API_KEY", Close>>, <<"x">>}

\* replaceEnvVars up to the return of getCurrentEnvironment (features.go:365):
\* the Environment it got under the read lock, kept with the input and with
\* the Config it was taken from
ResolveEnvironment(t) ==
    /\ GetCurrentEnvironment(t)
    /\ \E input \in RepeatInputs, env \in CurrentEnvironments(Config, Environments) :
          /\ env.Name = res'[t]
          /\ returned' = [returned EXCEPT ![t] =
                            [kind |-> "environment", input |-> input, env |-> env,
                             cfg |-> Config]]

\* the read lock is released (features.go:353) and the loop over
\* env.Variables runs on the Environment that was returned (features.go:371-376)
ResolveReturns(t) ==
    /\ RUnlock(t)
    /\ returned[t].kind = "environment"
    /\ \E order \in KeyOrders(returned[t].env.Variables) :
          returned' = [returned EXCEPT ![t] =
                         [kind |-> "resolved",
                          input |-> returned[t].input,
                          output |-> ReplaceInOrder(returned[t].input,
                                                    Tokens(returned[t].env.Variables),
                                                    order),
                          env |-> returned[t].env,
                          cfg |-> returned[t].cfg]]

NextRepeat ==
  /\ UNCHANGED <<send, outbound, exchange, startup, ui>>
  /\ \E t \in Threads :
        \/ \E m \in {"getCurrentEnvironment", "SetCurrentEnv"} :
              Call(t, m) /\ UNCHANGED returned
        \/ RLock(t) /\ UNCHANGED returned
        \/ ResolveEnvironment(t)
        \/ ResolveReturns(t)
        \/ Lock(t) /\ UNCHANGED returned
        \/ SetCurrentEnv(t) /\ UNCHANGED returned
        \/ WriteFile(t) /\ UNCHANGED returned
        \/ Unlock(t) /\ UNCHANGED returned

SpecRepeat == Init /\ [][NextRepeat]_vars

----------------------------------------------------------------------------
(* The update loop: Model.Update on key presses and on the Response messages
   of the sendRequest commands it started (main.go:297-444).  Bubble Tea runs
   every command in a goroutine of its own and hands its message to Update
   when it returns, so the Responses of several commands arrive in any order.
   ui.url is whether urlInput.Value() is non-empty; ui.commands is, per
   command, "none", "running" or "delivered". *)

Panels == {"urlPanel", "methodPanel", "headersPanel", "bodyPanel", "responsePanel"}

\* Update begins every call by clearing requestError (main.go:301)
Cleared == [ui EXCEPT !.requestError = FALSE]

\* the commands that have not yet handed their Response to Update
Undelivered == {i \in Requests : ui.commands[i] = "running"}

\* Tab (main.go:309-325)
PressTab ==
    ui' = [Cleared EXCEPT !.activePanel =
             IF ui.activePanel = "methodPanel" THEN "urlPanel"
             ELSE CASE ui.activePanel = "urlPanel" -> "headersPanel"
                    [] ui.activePanel = "headersPanel" -> "bodyPanel"
                    [] ui.activePanel = "bodyPanel" -> "responsePanel"
                    [] OTHER -> "methodPanel"]

\* Shift+Tab (main.go:327-339)
PressShiftTab ==
    ui' = [Cleared EXCEPT !.activePanel =
             CASE ui.activePanel = "methodPanel" -> "responsePanel"
               [] ui.activePanel = "urlPanel" -> "methodPanel"
               [] ui.activePanel = "headersPanel" -> "urlPanel"
               [] ui.activePanel = "bodyPanel" -> "headersPanel"
               [] ui.activePanel = "responsePanel" -> "bodyPanel"]

\* Enter (main.go:341-346): in the URL panel with a URL typed, loading is set
\* and a sendRequest command is started, whether or not one is running;
\* anywhere else the key falls through to the active panel (main.go:413-433)
PressEnter ==
    IF ui.activePanel = "urlPanel" /\ ui.url
    THEN \E i \in Requests :
            /\ ui.commands[i] = "none"
            /\ \A j \in Requests : j < i => ui.commands[j] # "none"
            /\ ui' = [Cleared EXCEPT !.loading = TRUE,
                                     !.commands[i] = "running"]
    ELSE ui' = Cleared

\* ? (main.go:349-351)
ToggleHelp == ui' = [Cleared EXCEPT !.showHelp = ~ui.showHelp]

\* any other key while the URL panel is active goes to urlInput.Update
\* (main.go:413-416), which adds or deletes a character
EditUrl ==
    /\ ui.activePanel = "urlPanel"
    /\ \E nonEmpty \in BOOLEAN : ui' = [Cleared EXCEPT !.url = nonEmpty]

\* case Response (main.go:402-411): the Response of command i arrives
ResponseArrives(i) ==
    /\ ui.commands[i] = "running"
    /\ \E failed \in BOOLEAN :
          ui' = [Cleared EXCEPT !.response = [of |-> i, Error |-> failed],
                                !.loading = FALSE,
                                !.requestError = failed,
                                !.commands[i] = "delivered"]

NextUpdate ==
  /\ UNCHANGED <<Config, History, Collections, Environments, disk, mu, now,
                 stack, pc, arg, res, diskOk, send, outbound, exchange,
                 returned, startup>>
  /\ \/ PressTab
     \/ PressShiftTab
     \/ PressEnter
     \/ ToggleHelp
     \/ EditUrl
     \/ \E i \in Requests : ResponseArrives(i)

SpecUpdate == Init /\ [][NextUpdate]_vars

----------------------------------------------------------------------------
(* Vocabulary of the properties *)

\* two request items with the same de-duplication key
SamePair(a, b) == a.url = b.url /\ a.method = b.method

\* no two entries of a request list share (url, method)
NoDuplicates(s) == \A i, j \in 1..Len(s) : i # j => ~SamePair(s[i], s[j])

\* the method a goroutine was called with (the bottom of its stack)
Running(t, m) == stack[t] # <<>> /\ stack[t][1] = m

\* a goroutine that waits for the lock while the lock is held
Blocked(t) ==
    \/ pc[t] = "lock" /\ (mu.writer # None \/ mu.readers # {})
    \/ pc[t] = "rlock" /\ mu.writer # None

\* nothing can run any more: every goroutine is idle or waits for a held lock
Quiescent == \A t \in Threads : pc[t] = "idle" \/ Blocked(t)

----------------------------------------------------------------------------
(* Properties of sendRequest (SpecSend) *)

\* C1: every sendRequest command returns its Response no later than
\* timeout + 1 seconds after it was started, whatever the HTTP call does and
\* whatever requests came before it.
C1_ReturnsByBackstop ==
    \A r \in Threads : InFlight(r) => send[r].elapsed <= send[r].timeout + 1

\* the history goroutine of request r is started by this step
Submits(r) == pc[HistoryOf(r)] = "idle" /\ pc'[HistoryOf(r)] = "lock"

\* C14: when the HTTP call has returned a response whose body was read, the
\* history goroutine is started exactly if there is a store whose
\* Config.SaveHistory is set, and on
\* an error it is not started; in the same step the Response is put into
\* resultChan, so from then on the command has either returned or finds its
\* Response there, wherever the history goroutine stands.
C14_HistoryOffThePath ==
    /\ [](\A r \in Threads :
            send[r].net \in {"done", "failed"}
            => send[r].caller = "returned" \/ send[r].chan = 1)
    /\ [][\A r \in Threads :
            /\ (send[r].net = "do" /\ send'[r].net = "done")
               => (Submits(r) <=> HasStore /\ Config.SaveHistory) /\ send'[r].chan = 1
            /\ (send[r].net = "do" /\ send'[r].net = "failed")
               => ~Submits(r) /\ send'[r].chan = 1]_vars

\* a command has returned the Response of its HTTP call while its history
\* goroutine waits inside addToHistory for the lock it holds itself
C14_Witness ==
    \E r \in Threads :
        /\ send[r].result = "response"
        /\ send[r].net = "done"
        /\ pc[HistoryOf(r)] = "lock"
        /\ mu.writer = HistoryOf(r)

----------------------------------------------------------------------------
(* Properties of variable substitution (SpecResolve) *)

\* what the store's resolve is specified to give: every occurrence of
\* {{key}} in the input replaced by the key's value, all else verbatim
RECURSIVE Substitute(_, _)
Substitute(s, variables) ==
    IF s = <<>> THEN <<>>
    ELSE IF Len(s) >= 3 /\ s[1] = Open /\ s[3] = Close /\ s[2] \in DOMAIN variables
         THEN variables[s[2]] \o Substitute(SubSeq(s, 4, Len(s)), variables)
         ELSE <<s[1]>> \o Substitute(Tail(s), variables)

\* no value of the environment holds a delimiter
PlainValues(variables) ==
    \A k \in DOMAIN variables :
        \A i \in 1..Len(variables[k]) : variables[k][i] \notin {Open, Close}

\* C12: the URL, the header value and the body of the request sendRequest
\* builds are what replaceEnvVars gives for the typed URL, header value and body.
C12_OutboundResolved ==
    outbound.kind = "request" =>
        /\ outbound.url \in ReplaceEnvVars(outbound.typed.url, Config, Environments)
        /\ outbound.header \in ReplaceEnvVars(outbound.typed.header, Config, Environments)
        /\ outbound.method = "POST" =>
              outbound.body \in ReplaceEnvVars(outbound.typed.body, Config, Environments)

\* C13: when the current environment exists and none of its values holds a
\* delimiter, replaceEnvVars(input) is input with every {{key}} of that
\* environment replaced by its value and everything else verbatim (so input
\* itself when the environment has no variables).
C13_ResolveSubstitutes ==
    \A t \in Threads :
        (/\ returned[t].kind = "resolved"
         /\ Config.CurrentEnv \in DOMAIN Environments
         /\ PlainValues(Environments[Config.CurrentEnv].Variables))
        => returned[t].output =
              Substitute(returned[t].input, Environments[Config.CurrentEnv].Variables)

----------------------------------------------------------------------------
(* Properties of the response pipeline (SpecResponse) *)

\* the HTTP goroutine has passed the point pc names
Past(points) == exchange.kind = "exchange" /\ exchange.pc \in points

C16_BodyCapped ==
    exchange.kind = "exchange" =>
        /\ ByteLen(exchange.respBody) <= bodyLimit
        /\ ByteLen(exchange.response.Body) <= bodyLimit
        /\ exchange.contentLength = bodyLimit => exchange.response.Error # "toolarge"

\* a server that declared exactly 10 MiB and sent more got its first 10 MiB
\* into the Response
C16_Witness ==
    /\ Past({"sent"})
    /\ exchange.contentLength = bodyLimit
    /\ ByteLen(exchange.sent) > bodyLimit
    /\ exchange.response.Error = "nil"
    /\ ByteLen(exchange.response.Body) = bodyLimit

\* the formatted body by the specified priority: size, then JSON with
\* auto-format on, then HTML, then the text as it is
FormatByPriority(decodedBody, auto, contentType, json) ==
    IF ByteLen(decodedBody) > largeLimit
    THEN [kind |-> "large", text |-> truncateString(decodedBody, previewLen)]
    ELSE IF auto /\ contentType.media = "application/json"
         THEN [kind |-> IF json THEN "pretty" ELSE "indenterror",
               text |-> Whole(decodedBody)]
         ELSE IF contentType.media = "text/html"
              THEN [kind |-> "html", text |-> truncateString(decodedBody, previewLen)]
              ELSE [kind |-> "raw", text |-> Whole(decodedBody)]

\* C17: the formatted body is the one the priority size > 100 KiB, JSON with
\* auto-format on, HTML, other gives.
C17_FormatPriority ==
    Past({"submit"}) =>
        exchange.formattedBody =
            FormatByPriority(exchange.decodedBody, Config.AutoFormatJSON,
                             exchange.contentType, exchange.json)

\* the declared charset, if any, is not one the decoder uses
Undeclared(contentType) ==
    \/ EncodingOf(contentType) \in {"utf-8", "UTF-8"}
    \/ EncodingOf(contentType) \notin KnownEncodings

\* C18: bytes that are not valid UTF-8 and that no declared charset decoded
\* are decoded by the first fallback encoding that succeeds.
C18_FallbackEncodings ==
    (Past({"format"})
     /\ \E i \in 1..Len(exchange.respBody.tail) : exchange.respBody.tail[i] = "x"
     /\ Undeclared(exchange.contentType))
    => exchange.decodedBody = tryAlternativeEncodings(exchange.respBody)

\* C19: decoding always yields a string: the decode step can always be
\* taken; valid UTF-8 with no charset or utf-8 declared comes out unchanged;
\* and when no declared charset decodes the bytes, every invalid byte
\* becomes U+FFFD and every valid character stays where it was.
C19_DecodeTotal ==
    /\ Past({"decode"}) => ENABLED DecodeBody
    /\ Past({"format"}) =>
          LET raw == exchange.respBody.tail
              dec == exchange.decodedBody.tail
          IN  /\ ((\A i \in 1..Len(raw) : raw[i] # "x")
                  /\ exchange.contentType.charset \in {"", "utf-8"})
                 => exchange.decodedBody = exchange.respBody
              /\ Undeclared(exchange.contentType)
                 => /\ exchange.decodedBody.pad = exchange.respBody.pad
                    /\ Len(dec) = Len(raw)
                    /\ \A i \in 1..Len(raw) :
                          dec[i] = IF raw[i] = "x" THEN "r" ELSE raw[i]

\* a body of a valid character followed by an invalid byte, with a charset
\* htmlindex does not know, has been decoded
C19_Witness ==
    /\ Past({"format"})
    /\ exchange.respBody.tail = <<"u", "x">>
    /\ exchange.contentType.charset = "bogus"

----------------------------------------------------------------------------
(* Property of the query helpers (SpecQuery) *)

\* C20: a query helper leaves the store as it is, and the result a
\* goroutine got from a helper is changed by no later step of any method:
\* only that goroutine's next query replaces it.
C20_ResultsNotAliased ==
    [][\A t \in Threads :
          IF pc[t] = "rlocked"
          THEN pc'[t] # pc[t] =>
                  /\ History' = History
                  /\ Collections' = Collections
                  /\ Environments' = Environments
                  /\ Config' = Config
                  /\ disk' = disk
          ELSE returned[t] # NoValue => returned'[t].items = returned[t].items]_vars

----------------------------------------------------------------------------
(* Properties of the lock discipline and of the history (SpecHistory) *)

\* C11: the reads sendRequest makes of Config (Timeout at its start,
\* AutoFormatJSON and SaveHistory when the HTTP call has returned) are never
\* made while another goroutine holds cm.mu exclusively.
C11_ReadsUnderLock ==
    [][\A r \in Threads :
          (\/ send[r].caller = "idle" /\ send'[r].caller = "resolve"
           \/ send[r].net = "do" /\ send'[r].net # "do")
          => mu.writer = None]_vars

\* C2: no store method tries to acquire cm.mu, shared or exclusive, while
\* the goroutine running it already holds it.
C2_NoReacquire ==
    \A t \in Threads :
        pc[t] \in {"lock", "rlock"} => mu.writer # t /\ t \notin mu.readers

\* C3: with history saving on, the history never holds two entries with the
\* same (url, method), and once addToHistory(item) has done its work it
\* returns (it is not left waiting for a lock) with item's pair at index 0,
\* stamped with the time of the call.
C3_OneEntryPerPairAtFront ==
    Config.SaveHistory =>
        /\ NoDuplicates(History)
        /\ \A t \in Threads :
              (Running(t, "addToHistory") /\ arg[t] # NoArg)
              => /\ ~(pc[t] = "lock" /\ mu.writer = t)
                 /\ Len(History) > 0
                 /\ SamePair(History[1], arg[t].req)
                 /\ History[1].lastUsed = now - 1

\* C4: with history saving on, the history a reader finds is never longer
\* than Config.HistoryLimit: whenever no goroutine is left that can still run
\* (and truncate), the length is within the limit.
C4_HistoryWithinLimit ==
    (Config.SaveHistory /\ Quiescent) => Len(History) <= Config.HistoryLimit

\* C5: with history saving on and a limit of at least 2, two concurrent
\* addToHistory calls both return: they never end in a state where both
\* calls are unfinished and neither goroutine can run.
C5_BothCallsReturn ==
    (Config.SaveHistory /\ Config.HistoryLimit >= 2) =>
        \A t1, t2 \in Threads :
            (t1 # t2 /\ Running(t1, "addToHistory") /\ Running(t2, "addToHistory"))
            => ~Quiescent

\* C6: with Config.SaveHistory off, a step of addToHistory changes neither
\* the in-memory history nor history.json.
C6_DisabledIsNoOp ==
    [][\A t \in Threads :
          (~Config.SaveHistory /\ Running(t, "addToHistory") /\ pc'[t] # pc[t])
          => /\ History' = History
             /\ disk'.history = disk.history]_vars

----------------------------------------------------------------------------
(* Properties of collections and of the current environment (Spec) *)

\* the goroutine has run addToCollection's mutation and still holds the lock
Upserted(t) == pc[t] \in {"write", "unlock"} /\ Top(t) = "addToCollection"

\* how many entries of a request list have req's (url, method)
Matches(s, req) == Cardinality({i \in 1..Len(s) : SamePair(s[i], req)})

\* C7: addToCollection is idempotent: right after addToCollection(name, req),
\* the same call again leaves every collection as it is, and the collection
\* holds exactly one entry with req's (url, method).
C7_UpsertIdempotent ==
    \A t \in Threads :
        Upserted(t) =>
            /\ AddToCollectionMem(Collections, arg[t].name, arg[t].req) = Collections
            /\ arg[t].name \in DOMAIN Collections
            /\ Matches(Collections[arg[t].name].Requests, arg[t].req) = 1

\* an upsert has replaced the first entry of a collection of two
C7_Witness ==
    \E t \in Threads :
        /\ Upserted(t)
        /\ pc[t] = "unlock"
        /\ res[t] = "nil"
        /\ arg[t].name \in DOMAIN Collections
        /\ Len(Collections[arg[t].name].Requests) = 2
        /\ Collections[arg[t].name].Requests[1] = arg[t].req

\* the effect the step of addToCollection(name, req) has on the collections
UpsertEffect(old, new, name, req) ==
    LET before == IF name \in DOMAIN old THEN old[name].Requests ELSE <<>>
        after == new[name].Requests
    IN  /\ DOMAIN new = DOMAIN old \cup {name}
        /\ \A other \in DOMAIN old \ {name} : new[other] = old[other]
        /\ name \notin DOMAIN old => new[name].Name = name
        /\ IF \E i \in 1..Len(before) : SamePair(before[i], req)
           THEN /\ Len(after) = Len(before)
                /\ \A i \in 1..Len(before) :
                      after[i] = IF SamePair(before[i], req) THEN req ELSE before[i]
           ELSE after = Append(before, req)

\* C8: no collection ever holds two entries with the same (url, method); an
\* addToCollection that matches an entry replaces it at its index and leaves
\* the length, the other entries and the other collections alone; one that
\* matches none appends; an absent collection is created under its name.
C8_UpsertInPlace ==
    /\ [](\A n \in DOMAIN Collections : NoDuplicates(Collections[n].Requests))
    /\ [][\A t \in Threads :
            (pc[t] = "locked" /\ Top(t) = "addToCollection" /\ pc'[t] # "locked")
            => UpsertEffect(Collections, Collections', arg'[t].name, arg'[t].req)]_vars

\* an upsert has replaced an entry by one with another body, while a second
\* collection exists (collections.json still holds the state before it)
C8_Witness ==
    \E t \in Threads :
        /\ Upserted(t)
        /\ pc[t] = "write"
        /\ DOMAIN Collections = CollNames
        /\ disk.collections = Written([Collections EXCEPT
               ![arg[t].name].Requests[1].body = "b1"])
        /\ Collections[arg[t].name].Requests[1] = arg[t].req
        /\ arg[t].req.body = "b2"

\* C9: SetCurrentEnv(name) with a name that is no key of Environments returns
\* the not-found error without any file write and leaves Config, History,
\* Collections, Environments and the files as they are; with a known name it
\* sets Config.CurrentEnv to it and writes Config to config.json.
C9_SetCurrentEnv ==
    /\ [][\A t \in Threads :
            (pc[t] = "locked" /\ Top(t) = "SetCurrentEnv" /\ pc'[t] # "locked")
            => IF arg'[t].name \notin DOMAIN Environments
               THEN /\ res'[t] = "notfound"
                    /\ pc'[t] = "unlock"
                    /\ UNCHANGED <<Config, History, Collections, Environments, disk>>
               ELSE /\ Config' = [Config EXCEPT !.CurrentEnv = arg'[t].name]
                    /\ pc'[t] = "write"]_vars
    /\ [][\A t \in Threads :
            (pc[t] = "unlock" /\ res[t] = "notfound" /\ pc'[t] # "unlock")
            => UNCHANGED <<Config, History, Collections, Environments, disk>>]_vars
    /\ [](\A t \in Threads :
            (pc[t] = "unlock" /\ Top(t) = "SetCurrentEnv" /\ res[t] = "nil")
            => /\ Config.CurrentEnv = arg[t].name
               /\ disk.config = Written(Config))

\* SetCurrentEnv("staging") returns not-found after an earlier call had set
\* the current environment to "production"
C9_Witness ==
    \E t \in Threads :
        /\ pc[t] = "unlock"
        /\ Top(t) = "SetCurrentEnv"
        /\ res[t] = "notfound"
        /\ arg[t].name = "staging"
        /\ Config.CurrentEnv = "production"
        /\ disk.config = Written(Config)

\* C10: when the file write of addToCollection or SetCurrentEnv fails, the
\* method returns the I/O error and its in-memory mutation stays: the entry
\* is in the collection, Config.CurrentEnv is the new name, and neither the
\* failing write nor the return undoes anything.
C10_WriteErrorKeepsMutation ==
    /\ [][\A t \in Threads :
            (pc[t] = "write" /\ pc'[t] # "write" /\ ~diskOk)
            => /\ res'[t] = "ioerr"
               /\ pc'[t] = "unlock"
               /\ UNCHANGED <<Config, History, Collections, Environments>>]_vars
    /\ [][\A t \in Threads :
            (pc[t] = "unlock" /\ res[t] = "ioerr" /\ pc'[t] # "unlock")
            => UNCHANGED <<Config, History, Collections, Environments>>]_vars
    /\ [](\A t \in Threads :
            (pc[t] = "unlock" /\ res[t] = "ioerr")
            => /\ Top(t) = "addToCollection" =>
                    /\ arg[t].name \in DOMAIN Collections
                    /\ \E i \in 1..Len(Collections[arg[t].name].Requests) :
                          Collections[arg[t].name].Requests[i] = arg[t].req
               /\ Top(t) = "SetCurrentEnv" => Config.CurrentEnv = arg[t].name)

\* addToCollection is about to return the I/O error: the entry is in memory
\* and not in collections.json
C10_Witness ==
    \E t \in Threads :
        /\ pc[t] = "unlock"
        /\ res[t] = "ioerr"
        /\ Top(t) = "addToCollection"
        /\ Collections[arg[t].name].Requests[1] = arg[t].req
        /\ disk.collections.data # Collections

----------------------------------------------------------------------------
(* Properties of NewConfigManager and of getCurrentEnvironment (SpecStartup) *)

\* C21: getCurrentEnvironment returns the entry of Environments under the key
\* Config.CurrentEnv when that key exists; when it does not and the map is
\* not empty, some entry of the map; when the map is empty, the Environment
\* with no name and no variables. No step of it changes the store or a file.
C21_CurrentEnvironment ==
    /\ [](\A t \in Threads :
            returned[t].kind = "environment" =>
               LET env == returned[t].env
                   cur == Config.CurrentEnv
               IN  /\ cur \in DOMAIN Environments => env = Environments[cur]
                   /\ (cur \notin DOMAIN Environments /\ DOMAIN Environments # {})
                         => \E n \in DOMAIN Environments : env = Environments[n]
                   /\ DOMAIN Environments = {}
                         => env.Name = "" /\ DOMAIN env.Variables = {})
    /\ [][\A t \in Threads :
            (Running(t, "getCurrentEnvironment") /\ pc'[t] # pc[t])
            => UNCHANGED storeVars]_vars

\* config.json names an environment that is gone, and the call returned one
\* of the two that exist
C21_Witness ==
    /\ returned["t1"].kind = "environment"
    /\ Config.CurrentEnv = "staging"
    /\ DOMAIN Environments # {}
    /\ returned["t1"].env = Environments["development"]

\* C23: NewConfigManager returns an error whenever one of the four load
\* methods failed to read or decode its file or to write a default.
C23_LoadErrorsReported ==
    (startup.at = "returned" /\ startup.errors # {}) => startup.result = "error"

\* C24: when NewConfigManager returns a store after it found none of the
\* four files, Config holds the defaults of the struct literal, Environments
\* the two seeds, History and Collections are empty, and config.json and
\* environments.json hold the defaults and the seeds.
C24_FreshStore ==
    [][(startup.at = "return" /\ startup'.at = "returned" /\ startup.found = {})
       => /\ Config' = [Theme |-> "dark", Timeout |-> 30, HistoryLimit |-> 100,
                        AutoFormatJSON |-> TRUE, SaveHistory |-> TRUE,
                        CurrentEnv |-> "", ShowResponseTime |-> TRUE,
                        TruncateResponse |-> 1000, SyntaxHighlighting |-> TRUE]
          /\ DOMAIN Environments' = {"development", "production"}
          /\ Environments' = SeedEnvironments
          /\ History' = <<>>
          /\ DOMAIN Collections' = {}
          /\ disk'.config = Written(Config')
          /\ disk'.environments = Written(Environments')]_vars

----------------------------------------------------------------------------
(* Properties of the timers, the context and the result channel (SpecSend) *)

\* C22: with T the configured timeout in seconds when there is a store and
\* the value is positive, and 5 otherwise, the context deadline and the
\* client timeout of every request are T and the backstop timer T + 1; the
\* backstop fires only when the time since the start is past both of them.
C22_TimeoutsAgree ==
    /\ [](\A r \in Threads :
            LET T == IF HasStore /\ Config.Timeout > 0 THEN Config.Timeout ELSE 5
            IN  /\ InFlight(r) => send[r].deadline = T
                /\ send[r].caller = "select"
                      => send[r].client = T /\ send[r].backstop = T + 1)
    /\ [][\A r \in Threads :
            (send[r].caller = "select" /\ send'[r].result = "forced")
            => /\ send[r].elapsed > send[r].deadline
               /\ send[r].elapsed > send[r].client]_vars

\* a request made without a store has returned through the backstop, six
\* seconds after it was started
C22_Witness ==
    /\ ~HasStore
    /\ \E r \in Threads : send[r].result = "forced" /\ send[r].elapsed = 6

\* C29: once the command has returned (with the Response it received, with
\* the forced timeout, or with the error of http.NewRequest) its context is
\* cancelled; returning leaves the goroutine of the HTTP call where it was,
\* and nothing that goroutine does later changes what the command returned.
C29_CancelledNotKilled ==
    /\ [](\A r \in Threads : send[r].caller = "returned" => send[r].ctx = "cancelled")
    /\ [][\A r \in Threads :
            /\ (send[r].caller # "returned" /\ send'[r].caller = "returned")
               => send'[r].net = send[r].net
            /\ send[r].caller = "returned"
               => send'[r].caller = "returned" /\ send'[r].result = send[r].result]_vars

\* the backstop fired, and the HTTP call then ran to its end: its Response
\* sits in resultChan, unread
C29_Witness ==
    \E r \in Threads :
        /\ send[r].result = "forced"
        /\ send[r].ctx = "cancelled"
        /\ send[r].net = "done"
        /\ send[r].chan = 1

\* C30: the goroutine of the HTTP call ends, on its error paths and on
\* success alike, with exactly one send on resultChan; the channel is empty
\* until then, so the send finds room and the goroutine can finish whatever
\* the command is doing, also after the backstop has fired.
C30_OneSendNeverBlocks ==
    /\ [](\A r \in Threads :
            /\ send[r].chan \in {0, 1}
            /\ send[r].net = "do" => send[r].chan = 0 /\ ENABLED NetReturns(r))
    /\ [][\A r \in Threads :
            /\ (send[r].net = "do" /\ send'[r].net # "do")
               => send'[r].net \in {"done", "failed"} /\ send'[r].chan = send[r].chan + 1
            /\ send'[r].chan > send[r].chan
               => send[r].net = "do" /\ send'[r].net # "do"]_vars

\* the backstop fired first and the HTTP call failed afterwards: the
\* goroutine has sent its error Response and is gone
C30_Witness ==
    \E r \in Threads :
        /\ send[r].result = "forced"
        /\ send[r].net = "failed"
        /\ send[r].chan = 1

----------------------------------------------------------------------------
(* Properties of the order of the history (SpecHistory) *)

\* every entry was recorded in this run (time.Now() is at least 1 here):
\* history.json had none to load
RecordedHere(h) == \A i \in 1..Len(h) : h[i].createdAt > 0

\* lastUsed does not increase from the front to the back
MostRecentFirst(h) == \A i \in 1..(Len(h) - 1) : h[i].lastUsed >= h[i + 1].lastUsed

\* the step in which addToHistory changes the in-memory history
Records(t) == pc[t] = "locked" /\ Top(t) = "addToHistory" /\ pc'[t] # pc[t]

C26_MoveToFrontKeepsEntries ==
    [][\A t \in Threads :
          Records(t)
          => \A i \in 1..Len(History) :
                SamePair(History[i], arg'[t].req)
                => /\ Len(History') = Len(History)
                   /\ History'[1] = [History[i] EXCEPT !.lastUsed = History'[1].lastUsed]
                   /\ SubSeq(History', 2, Len(History'))
                         = SubSeq(History, 1, i - 1) \o SubSeq(History, i + 1, Len(History))]_vars

----------------------------------------------------------------------------
(* Property of the lock held across the file write (Spec) *)

\* C27: a mutating method holds cm.mu exclusively from its first read of the
\* state until its file write is done, so that, as long as no write has
\* failed, a goroutine holding the read lock finds Config, History and
\* Collections equal to what their files hold.
C27_ReadersSeeWhatWasWritten ==
    /\ \A t \in Threads : pc[t] \in {"locked", "write", "unlock"} => mu.writer = t
    /\ (mu.readers # {} /\ diskOk)
          => /\ Config = disk.config.data
             /\ History = disk.history.data
             /\ Collections = disk.collections.data

\* a goroutine holds the read lock after addToCollection and SetCurrentEnv
\* have both completed
C27_Witness ==
    /\ mu.readers # {}
    /\ diskOk
    /\ Config.CurrentEnv = "production"
    /\ disk.config = Written(Config)
    /\ DOMAIN Collections # {}
    /\ disk.collections = Written(Collections)

----------------------------------------------------------------------------
(* Property of the single substitution pass (SpecResolve) *)

\* C28: replaceEnvVars makes one pass: when the input is the placeholder of
\* a variable of the current environment, the result is that variable's
\* value as it stands, placeholders inside the value included, whatever the
\* order in which the variables are visited.
C28_SinglePass ==
    \A t \in Threads :
        (returned[t].kind = "resolved" /\ Config.CurrentEnv \in DOMAIN Environments)
        => LET variables == Environments[Config.CurrentEnv].Variables
           IN  \A key \in DOMAIN variables :
                  returned[t].input = Placeholder(key)
                  => returned[t].output = variables[key]

----------------------------------------------------------------------------
(* Property of the history and the delivered Response (SpecSend) *)

\* C31: the history goroutine of a request changes the history only if the
\* HTTP call succeeded and the command of that request returns the Response
\* of that call: never when the command has returned the forced timeout or
\* an error.
C31_HistoryOnlyOnSuccess ==
    \A r \in Threads :
        (Running(HistoryOf(r), "addToHistory") /\ arg[HistoryOf(r)] # NoArg)
        => /\ send[r].net = "done"
           /\ send[r].caller = "returned" => send[r].result = "response"

----------------------------------------------------------------------------
(* Property of repeated calls (SpecRepeat) *)

\* C33: two replaceEnvVars calls made on the same input while Config is
\* the same return the same string, and the getCurrentEnvironment calls
\* inside them the same Environment; this holds right after
\* NewConfigManager has seeded the store as well.
C33_SameAnswerTwice ==
    \A t1, t2 \in Threads :
        (/\ returned[t1].kind = "resolved"
         /\ returned[t2].kind = "resolved"
         /\ returned[t1].input = returned[t2].input
         /\ returned[t1].cfg = Config
         /\ returned[t2].cfg = Config)
        => /\ returned[t1].env = returned[t2].env
           /\ returned[t1].output = returned[t2].output

----------------------------------------------------------------------------
(* Property of the Response a command returns (SpecResponse) *)

\* C32: a Response the command returns with an error has an empty Body and
\* an empty FormattedBody; one it returns without an error carries the
\* status code, the status text and the headers of the HTTP response, the
\* body that was read from it and the formatted body made of that.
C32_ResponseShape ==
    returned["t1"].kind = "response" =>
        LET r == returned["t1"].response
        IN  /\ r.Error # "nil" => r.Body = EmptyBody /\ r.FormattedBody = NoFormat
            /\ r.Error = "nil"
                  => /\ exchange.kind = "exchange"
                     /\ r.StatusCode = exchange.StatusCode
                     /\ r.Status = exchange.Status
                     /\ r.Headers = exchange.contentType
                     /\ r.Body = LimitReader(Delivered(exchange.sent,
                                                       exchange.contentLength), bodyLimit)
                     /\ r.Body = exchange.respBody
                     /\ r.FormattedBody = exchange.formattedBody

\* the command has returned a 404 response with a body
C32_Witness ==
    /\ returned["t1"].kind = "response"
    /\ returned["t1"].response.Error = "nil"
    /\ returned["t1"].response.StatusCode = 404
    /\ returned["t1"].response.Body # EmptyBody
    /\ returned["t1"].response.FormattedBody # NoFormat

\* C34: in the update loop, whenever a sent request has not yet delivered its
\* Response to Update, loading is true; so loading is false only when no
\* request is in flight.
C34_LoadingWhileInFlight == Undelivered # {} => ui.loading

====
